---------------------------- MODULE Spec2Model ----------------------------
(***************************************************************************)
(* Model of the Yakuza GMT Blender add-on: the coordinate conversions,     *)
(* bone transforms and camera conversion of coordinate_converter.py, the   *)
(* export of an FCurve group (make_bone, make_curve) and of the groups of  *)
(* an action (get_anm) of exporter.py, the curve merge (add_curve,         *)
(* merge_vector) of importer.py, and the execute of the import and export  *)
(* operators.                                                              *)
(*                                                                         *)
(* Numbers.  Positions are exact: a Vector is a triple of integers.        *)
(* Positions that take part in a merge are given in units of 1/Scale, so   *)
(* that Vector.lerp at every fraction (i - less)/(more - less) the model   *)
(* can reach is an exact integer.  A mathutils Quaternion is the record    *)
(* [w, x, y, z]; the product of two such records is the Hamilton product.  *)
(* Quaternion.slerp is not a rational function: it is kept as the term     *)
(* [slerp |-> <<a, b>>, num, den], and a product with such a term as the   *)
(* term [mul |-> <<l, r>>].  The rest rotations of bones are unit          *)
(* quaternions with whole components, and rotation values are quaternions  *)
(* of the rotations of the cube, written with the least whole components   *)
(* of their direction, so that rotation matrices have entries -1, 0, 1.    *)
(* A field of view is written as the fraction tan(fov / 2).                *)
(***************************************************************************)
EXTENDS Integers, Sequences, FiniteSets, TLC

VARIABLES
    cv_op,          \* the conversion exercised: "pos", "rot" or "pat"
    cv_in,          \* its input
    cv_mid,         \* the value after the first conversion
    cv_out,         \* the value after the conversion back
    cv_pc,          \* "start", "converted", "restored", "raised", or "idle"
    curve,          \* add_curve's first argument (the curve merged into)
    other,          \* add_curve's second argument
    curve_before,   \* curve as it was when add_curve was called
    ac_pc,          \* "call", "checked", "returned", "raised", or "idle"
    ac_err,         \* the exception add_curve raised, or "none"
    gmt,            \* the GMT file read: vector_version and the bones of its animation
    settings,       \* import settings: merge_vector_curves
    run,            \* two imports of gmt: run[1] with is_auth FALSE, run[2] with TRUE
    ex,             \* an export: exporter, FCurve group(s), and make_bone's or get_anm's outcome
    bt,             \* one value taken through the bone transforms of a descriptor table
    cam,            \* a camera animation and the outcome of its conversion
    ui              \* an operator's execute: the scene, the file, what was reported

cvVars == <<cv_op, cv_in, cv_mid, cv_out, cv_pc>>
acVars == <<curve, other, curve_before, ac_pc, ac_err>>
mvVars == <<gmt, settings, run>>
restVars == <<ex, bt, cam, ui>>
vars == <<cv_op, cv_in, cv_mid, cv_out, cv_pc,
          curve, other, curve_before, ac_pc, ac_err,
          gmt, settings, run, ex, bt, cam, ui>>

-----------------------------------------------------------------------------
(* Bounds *)

\* Components of the positions and quaternions converted lie in -CoordMax..CoordMax.
CoordMax == 1
\* Keyframes lie on the frames 0..MaxFrame.
MaxFrame == 3
\* The bones of an imported animation have their keyframes on 0..MaxBoneFrame.
MaxBoneFrame == 1

Coords == (-CoordMax)..CoordMax
Frames == 0..MaxFrame

-----------------------------------------------------------------------------
(* Helpers over sequences and sets *)

RECURSIVE SetToSortedSeq(_)
SetToSortedSeq(S) ==
    IF S = {} THEN <<>>
    ELSE LET m == CHOOSE a \in S : \A b \in S : a <= b
         IN <<m>> \o SetToSortedSeq(S \ {m})

RECURSIVE Gcd(_, _)
Gcd(a, b) == IF b = 0 THEN a ELSE Gcd(b, a % b)

RECURSIVE LcmUpTo(_)
LcmUpTo(n) == IF n <= 1 THEN 1
              ELSE LET l == LcmUpTo(n - 1) IN (l * n) \div Gcd(l, n)

\* One unit of a merged position is 1/Scale: every fraction with a denominator
\* in 1..MaxFrame of a multiple of Scale is an integer.
Scale == LcmUpTo(MaxFrame)

-----------------------------------------------------------------------------
(* coordinate_converter.py: single values *)

\* A mathutils Quaternion, w first.
Quaternion(w, x, y, z) == [w |-> w, x |-> x, y |-> y, z |-> z]

pos_to_blender_swapped(pos) == <<-pos[1], pos[2], pos[3]>>

pos_to_blender(pos) == <<-pos[1], pos[3], pos[2]>>

pos_from_blender(pos) == <<-pos[1], pos[3], pos[2]>>

rot_to_blender_unflipped(rot) == Quaternion(rot[4], rot[1], rot[3], rot[2])

\* rot is the engine's (x, y, z, w): rot[1..4] are Python's rot[0..3].
rot_to_blender(rot) == Quaternion(rot[4], -rot[1], rot[3], rot[2])

\* rot is a Quaternion: Python's rot[0..3] are w, x, y, z.
rot_from_blender(rot) == <<-rot.x, rot.z, rot.y, rot.w>>

\* Each [start, end] pair becomes the 1-tuple of its start code.
pattern1_to_blender(pattern) ==
    [i \in 1..Len(pattern) |-> <<pattern[i][1]>>]

\* [pattern, pattern[1:] + [pattern[-1]]]; pattern[-1] of an empty list raises.
pattern1_from_blender(pattern) ==
    IF Len(pattern) = 0
    THEN [err |-> "IndexError", value |-> <<>>]
    ELSE [err |-> "none",
          value |-> <<pattern, Tail(pattern) \o <<pattern[Len(pattern)]>> >>]

-----------------------------------------------------------------------------
(* mathutils: the vectors, quaternions and matrices of the bone transforms *)

ZeroVector == <<0, 0, 0>>
IdentityQuaternion == Quaternion(1, 0, 0, 0)

IsQuaternion(v) == DOMAIN v = {"w", "x", "y", "z"}

\* Vector + Vector.
vector_add(v1, v2) == <<v1[1] + v2[1], v1[2] + v2[2], v1[3] + v2[3]>>

\* Vector - Vector.
vector_sub(v1, v2) == <<v1[1] - v2[1], v1[2] - v2[2], v1[3] - v2[3]>>

\* Quaternion @ Quaternion, the Hamilton product; a product with an interpolated
\* operand stays a term.
quaternion_mul(q1, q2) ==
    IF IsQuaternion(q1) /\ IsQuaternion(q2)
    THEN Quaternion(q1.w * q2.w - q1.x * q2.x - q1.y * q2.y - q1.z * q2.z,
                    q1.w * q2.x + q1.x * q2.w + q1.y * q2.z - q1.z * q2.y,
                    q1.w * q2.y - q1.x * q2.z + q1.y * q2.w + q1.z * q2.x,
                    q1.w * q2.z + q1.x * q2.y - q1.y * q2.x + q1.z * q2.w)
    ELSE [mul |-> <<q1, q2>>]

\* Quaternion.inverted(): the conjugate over the squared length. The rest
\* rotations of bones are unit quaternions, for which the division is exact.
quaternion_inverted(q) ==
    LET n == q.w * q.w + q.x * q.x + q.y * q.y + q.z * q.z
    IN Quaternion(q.w \div n, (-q.x) \div n, (-q.y) \div n, (-q.z) \div n)

\* A 4x4 matrix made of a rotation and a translation: [r |-> the three rows of
\* the rotation, t |-> the translation column].
IdentityRows == << <<1, 0, 0>>, <<0, 1, 0>>, <<0, 0, 1>> >>

rows_mul(A, B) ==
    [i \in 1..3 |-> [j \in 1..3 |->
        A[i][1] * B[1][j] + A[i][2] * B[2][j] + A[i][3] * B[3][j]]]

rows_apply(A, v) ==
    [i \in 1..3 |-> A[i][1] * v[1] + A[i][2] * v[2] + A[i][3] * v[3]]

rows_transposed(A) == [i \in 1..3 |-> [j \in 1..3 |-> A[j][i]]]

\* Matrix.Translation(v).
matrix_translation(v) == [r |-> IdentityRows, t |-> v]

\* Quaternion.to_matrix().to_4x4(): the rotation matrix of the normalized
\* quaternion. The quaternions used are those of the rotations of the cube,
\* whose matrices have the entries -1, 0 and 1, so that the division is exact.
quaternion_to_matrix(q) ==
    LET n == q.w * q.w + q.x * q.x + q.y * q.y + q.z * q.z
    IN [r |-> << << (n - 2 * (q.y * q.y + q.z * q.z)) \div n,
                    (2 * (q.x * q.y - q.z * q.w)) \div n,
                    (2 * (q.x * q.z + q.y * q.w)) \div n >>,
                 << (2 * (q.x * q.y + q.z * q.w)) \div n,
                    (n - 2 * (q.x * q.x + q.z * q.z)) \div n,
                    (2 * (q.y * q.z - q.x * q.w)) \div n >>,
                 << (2 * (q.x * q.z - q.y * q.w)) \div n,
                    (2 * (q.y * q.z + q.x * q.w)) \div n,
                    (n - 2 * (q.x * q.x + q.y * q.y)) \div n >> >>,
        t |-> ZeroVector]

\* Matrix @ Matrix.
matrix_mul(A, B) ==
    [r |-> rows_mul(A.r, B.r), t |-> vector_add(rows_apply(A.r, B.t), A.t)]

\* Matrix.inverted() of a rotation followed by a translation.
matrix_inverted(A) ==
    [r |-> rows_transposed(A.r),
     t |-> vector_sub(ZeroVector, rows_apply(rows_transposed(A.r), A.t))]

\* Matrix.to_translation().
matrix_to_translation(A) == A.t

\* The quaternions of the rotations of the cube, each written with the least
\* whole components of its direction: (1, 0, 1, 0) stands for the unit
\* quaternion (1, 0, 1, 0) / sqrt(2).
CubeQuaternions ==
    { q \in [w : -1..1, x : -1..1, y : -1..1, z : -1..1] :
        q.w * q.w + q.x * q.x + q.y * q.y + q.z * q.z \in {1, 2, 4} }

\* Matrix.to_quaternion(): a unit quaternion of the matrix's rotation, here the
\* one whose first component that is not zero is positive.
matrix_to_quaternion(A) ==
    CHOOSE q \in CubeQuaternions :
        /\ quaternion_to_matrix(q).r = A.r
        /\ \/ q.w > 0
           \/ q.w = 0 /\ q.x > 0
           \/ q.w = 0 /\ q.x = 0 /\ q.y > 0
           \/ q.w = 0 /\ q.x = 0 /\ q.y = 0 /\ q.z > 0

-----------------------------------------------------------------------------
(* coordinate_converter.py: the transforms between a bone's local space in the
   file and in Blender *)

\* dict.get(name) of a name the dict does not have.
None == [none |-> TRUE]

\* A GMTBlenderBoneProps: the rest pose of a bone.
BoneProps(head, parent_name, loc, rot, rot_local) ==
    [head |-> head, parent_name |-> parent_name,
     loc |-> loc, rot |-> rot, rot_local |-> rot_local]

\* GMTBlenderBoneProps(): no parent, no offset, no rotation.
GMTBlenderBoneProps ==
    BoneProps(ZeroVector, "", ZeroVector, IdentityQuaternion, IdentityQuaternion)

\* bone_props.get(name): bone_props is a function from the bone names it has
\* to their GMTBlenderBoneProps.
bone_props_get(bone_props, name) ==
    IF name \in DOMAIN bone_props THEN bone_props[name] ELSE None

bone_props_get_or_default(bone_props, name) ==
    IF name \in DOMAIN bone_props THEN bone_props[name] ELSE GMTBlenderBoneProps

\* "parent_head = bone_props.get(prop.parent_name)" and the if after it.
parent_head_of(bone_props, prop) ==
    IF bone_props_get(bone_props, prop.parent_name) # None
    THEN bone_props_get(bone_props, prop.parent_name).head
    ELSE ZeroVector

\* "parent_rot = bone_props.get(prop.parent_name)" and the if after it.
parent_rot_of(bone_props, prop) ==
    IF bone_props_get(bone_props, prop.parent_name) # None
    THEN bone_props_get(bone_props, prop.parent_name).rot_local
    ELSE IdentityQuaternion

transform_location_to_blender_head_kept(bone_props, bone_name, values) ==
    LET prop == bone_props_get_or_default(bone_props, bone_name)
        loc == prop.loc
        rot == prop.rot
        pre_mat == matrix_mul(matrix_inverted(matrix_translation(loc)),
                              matrix_inverted(quaternion_to_matrix(rot)))
        post_mat == matrix_mul(quaternion_to_matrix(rot), matrix_translation(loc))
    IN [i \in 1..Len(values) |->
          matrix_to_translation(
            matrix_mul(matrix_mul(pre_mat, matrix_translation(values[i])),
                       post_mat))]

transform_location_to_blender(bone_props, bone_name, values) ==
    LET prop == bone_props_get_or_default(bone_props, bone_name)
        head == prop.head
        parent_head == parent_head_of(bone_props, prop)
        loc == prop.loc
        rot == prop.rot
        pre_mat == matrix_mul(matrix_inverted(matrix_translation(loc)),
                              matrix_inverted(quaternion_to_matrix(rot)))
        post_mat == matrix_mul(quaternion_to_matrix(rot), matrix_translation(loc))
    IN [i \in 1..Len(values) |->
          matrix_to_translation(
            matrix_mul(matrix_mul(pre_mat,
                matrix_translation(
                    vector_add(vector_sub(values[i], head), parent_head))),
                post_mat))]

transform_rotation_to_blender(bone_props, bone_name, values) ==
    LET prop == bone_props_get_or_default(bone_props, bone_name)
        parent_rot == parent_rot_of(bone_props, prop)
        rot == prop.rot
        rot_local == prop.rot_local
        pre_quat == quaternion_mul(quaternion_inverted(rot), parent_rot)
        post_quat == quaternion_mul(
                        quaternion_mul(quaternion_inverted(rot_local),
                                       quaternion_inverted(parent_rot)),
                        rot)
    IN [i \in 1..Len(values) |->
          quaternion_mul(quaternion_mul(pre_quat, values[i]), post_quat)]

transform_location_from_blender(bone_props, bone_name, values) ==
    LET prop == bone_props_get_or_default(bone_props, bone_name)
        head == prop.head
        parent_head == parent_head_of(bone_props, prop)
        loc == prop.loc
        rot == prop.rot
        pre_mat == matrix_mul(quaternion_to_matrix(rot), matrix_translation(loc))
        post_mat == matrix_mul(matrix_inverted(matrix_translation(loc)),
                               matrix_inverted(quaternion_to_matrix(rot)))
    IN [i \in 1..Len(values) |->
          pos_from_blender(
            vector_sub(
              vector_add(
                matrix_to_translation(
                  matrix_mul(matrix_mul(pre_mat, matrix_translation(values[i])),
                             post_mat)),
                head),
              parent_head))]

transform_rotation_from_blender_swapped(bone_props, bone_name, values) ==
    LET prop == bone_props_get_or_default(bone_props, bone_name)
        parent_rot == parent_rot_of(bone_props, prop)
        rot == prop.rot
        rot_local == prop.rot_local
        pre_quat == quaternion_mul(quaternion_inverted(parent_rot), rot)
        post_quat == quaternion_mul(
                        quaternion_mul(quaternion_inverted(rot), rot_local),
                        parent_rot)
    IN [i \in 1..Len(values) |->
          rot_from_blender(
            quaternion_mul(quaternion_mul(pre_quat, values[i]), post_quat))]

transform_rotation_from_blender(bone_props, bone_name, values) ==
    LET prop == bone_props_get_or_default(bone_props, bone_name)
        parent_rot == parent_rot_of(bone_props, prop)
        rot == prop.rot
        rot_local == prop.rot_local
        pre_quat == quaternion_mul(quaternion_inverted(parent_rot), rot)
        post_quat == quaternion_mul(
                        quaternion_mul(quaternion_inverted(rot), parent_rot),
                        rot_local)
    IN [i \in 1..Len(values) |->
          rot_from_blender(
            quaternion_mul(quaternion_mul(pre_quat, values[i]), post_quat))]

-----------------------------------------------------------------------------
(* coordinate_converter.py: the conversion of a camera animation *)

\* A number that is not whole, in lowest terms. An angle fov is written as the
\* fraction tan(fov / 2), so that tan and atan are exact.
Fraction(num, den) ==
    [num |-> num \div Gcd(num, den), den |-> den \div Gcd(num, den)]

\* camera.data.sensor_height as the importer sets it.
SENSOR_HEIGHT == 100

\* (sensor_height / 2) / tan(fov / 2): Python raises ZeroDivisionError when the
\* tangent is 0.0.
fov_to_blender(fov, sensor_height) ==
    IF fov.num = 0
    THEN [err |-> "ZeroDivisionError", value |-> None]
    ELSE [err |-> "none", value |-> Fraction(sensor_height * fov.den, 2 * fov.num)]

\* 2 * atan(sensor_height / (2 * fov)), fov being the focal length: Python
\* raises ZeroDivisionError when it is 0.
fov_from_blender(fov, sensor_height) ==
    IF fov.num = 0
    THEN [err |-> "ZeroDivisionError", value |-> None]
    ELSE [err |-> "none", value |-> Fraction(sensor_height * fov.den, 2 * fov.num)]

\* location + (d.to_track_quat('Z', 'Y') @ Vector((0, 0, -d.length))) with
\* d = focus_point - location: the track quaternion turns the Z axis onto d, so
\* the vector added is -d (the zero vector when d is).
focus_point_to_blender(focus_point, location) ==
    vector_sub(location, vector_sub(focus_point, location))

\* The same with to_track_quat('-Z', 'Y') and Vector((0, 0, d.length)): the
\* quaternion turns the -Z axis onto d, and the vector added is -d again.
focus_point_from_blender(focus_point, location) ==
    vector_sub(location, vector_sub(focus_point, location))

\* A frame of a CMTAnimation.
CMTFrame(location, focus_point, fov) ==
    [location |-> location, focus_point |-> focus_point, fov |-> fov]

\* The loop of convert_cmt_anm_to_blender from the n-th frame on: the frames
\* are changed in place, and a frame whose fov raises keeps its fov, with its
\* location and focus point already converted, and ends the loop.
RECURSIVE convert_cmt_anm_to_blender_from(_, _, _)
convert_cmt_anm_to_blender_from(frames, n, sensor_height) ==
    IF n > Len(frames) THEN [err |-> "none", frames |-> frames]
    ELSE LET location == pos_to_blender(frames[n].location)
             focus_point == focus_point_to_blender(
                                pos_to_blender(frames[n].focus_point), location)
             fov == fov_to_blender(frames[n].fov, sensor_height)
         IN IF fov.err # "none"
            THEN [err |-> fov.err,
                  frames |-> [frames EXCEPT ![n] =
                                CMTFrame(location, focus_point, frames[n].fov)]]
            ELSE convert_cmt_anm_to_blender_from(
                    [frames EXCEPT ![n] = CMTFrame(location, focus_point, fov.value)],
                    n + 1, sensor_height)

convert_cmt_anm_to_blender(frames, sensor_height) ==
    convert_cmt_anm_to_blender_from(frames, 1, sensor_height)

RECURSIVE convert_cmt_anm_from_blender_from(_, _, _)
convert_cmt_anm_from_blender_from(frames, n, sensor_height) ==
    IF n > Len(frames) THEN [err |-> "none", frames |-> frames]
    ELSE LET location == pos_from_blender(frames[n].location)
             focus_point == focus_point_from_blender(
                                pos_from_blender(frames[n].focus_point), location)
             fov == fov_from_blender(frames[n].fov, sensor_height)
         IN IF fov.err # "none"
            THEN [err |-> fov.err,
                  frames |-> [frames EXCEPT ![n] =
                                CMTFrame(location, focus_point, frames[n].fov)]]
            ELSE convert_cmt_anm_from_blender_from(
                    [frames EXCEPT ![n] = CMTFrame(location, focus_point, fov.value)],
                    n + 1, sensor_height)

convert_cmt_anm_from_blender(frames, sensor_height) ==
    convert_cmt_anm_from_blender_from(frames, 1, sensor_height)

-----------------------------------------------------------------------------
(* exporter.py: the encoding of one FCurve group into a GMT curve *)

\* FCurve.keyframe_points: each point is [co |-> <<frame, value>>, interpolation],
\* with interpolation 0 for 'CONSTANT' and 1 for 'LINEAR', as foreach_get gives it.
CONSTANT_INTERPOLATION == 0

\* Pattern numbers above this are not known to the old engine.
OLD_ENGINE_MAX_PATTERN == 17

correct_pattern(pattern) ==
    [i \in 1..Len(pattern) |->
        IF pattern[i] > OLD_ENGINE_MAX_PATTERN THEN 0 ELSE pattern[i]]

\* axis_co[::2] and axis_co[1:][::2] of the flat co array of one FCurve.
co_frames(points) == [i \in 1..Len(points) |-> points[i].co[1]]
co_values(points) == [i \in 1..Len(points) |-> points[i].co[2]]

\* pol: a keyframe counts as constant when every axis has it 'CONSTANT'.
constant_flags(fcurves, axes) ==
    [i \in 1..Len(fcurves[axes[1]]) |->
        \A a \in 1..Len(axes) :
            fcurves[axes[a]][i].interpolation = CONSTANT_INTERPOLATION]

InsertAt_overwriting(seq, k, e) == [seq EXCEPT ![k] = e]

InsertAt(seq, k, e) == SubSeq(seq, 1, k - 1) \o <<e>> \o SubSeq(seq, k, Len(seq))

RECURSIVE duplicate_constant_any_gap(_, _, _, _)
duplicate_constant_any_gap(pol, graph, i, j) ==
    IF i > Len(pol) - 1 THEN graph
    ELSE LET k == i + j
         IN IF pol[i]
            THEN duplicate_constant_any_gap(pol,
                    [keyframes |-> InsertAt(graph.keyframes, k + 1,
                                            graph.keyframes[k + 1] - 1),
                     values |-> InsertAt(graph.values, k + 1, graph.values[k])],
                    i + 1, j + 1)
            ELSE duplicate_constant_any_gap(pol, graph, i + 1, j)

\* The loop "for i in range(len(pol) - 1)" from its i-th round on (i counts from 1,
\* j keyframes inserted so far): a held segment longer than one frame gets a copy
\* of its first keyframe one frame before its end.
RECURSIVE duplicate_constant(_, _, _, _)
duplicate_constant(pol, graph, i, j) ==
    IF i > Len(pol) - 1 THEN graph
    ELSE LET k == i + j
         IN IF pol[i] /\ graph.keyframes[k + 1] - graph.keyframes[k] > 1
            THEN duplicate_constant(pol,
                    [keyframes |-> InsertAt(graph.keyframes, k + 1,
                                            graph.keyframes[k + 1] - 1),
                     values |-> InsertAt(graph.values, k + 1, graph.values[k])],
                    i + 1, j + 1)
            ELSE duplicate_constant(pol, graph, i + 1, j)

\* GMTExporter.transform_location: self.bone_props[bone_name] raises KeyError for
\* a bone the armature does not have, print(values[0]) raises IndexError for an
\* empty list.
transform_location(self, bone_name, values) ==
    IF bone_name \notin DOMAIN self.bone_props
    THEN [err |-> "KeyError", values |-> <<>>]
    ELSE LET prop == self.bone_props[bone_name]
             head == prop.head
             parent_head == parent_head_of(self.bone_props, prop)
             rot == prop.rot
             out == [i \in 1..Len(values) |->
                       pos_from_blender(
                         vector_sub(
                           vector_add(
                             matrix_to_translation(
                               matrix_mul(quaternion_to_matrix(rot),
                                          matrix_translation(values[i]))),
                             head),
                           parent_head))]
         IN IF Len(out) = 0
            THEN [err |-> "IndexError", values |-> <<>>]
            ELSE [err |-> "none", values |-> out]

\* GMTExporter.transform_rotation.
transform_rotation(self, bone_name, values) ==
    IF bone_name \notin DOMAIN self.bone_props
    THEN [err |-> "KeyError", values |-> <<>>]
    ELSE LET prop == self.bone_props[bone_name]
             rot == prop.rot
             rot_local == prop.rot_local
         IN [err |-> "none",
             values |-> [i \in 1..Len(values) |->
                rot_from_blender(
                  matrix_to_quaternion(
                    matrix_mul(
                      matrix_mul(
                        matrix_mul(quaternion_to_matrix(rot_local),
                                   quaternion_to_matrix(rot)),
                        quaternion_to_matrix(values[i])),
                      matrix_inverted(quaternion_to_matrix(rot)))))]]

\* The length of the list that map() builds from the value arrays of the axes:
\* map() stops at the end of the shortest.
shortest_axis(fcurves, axes) ==
    CHOOSE n \in { Len(fcurves[axes[a]]) : a \in 1..Len(axes) } :
        \A a \in 1..Len(axes) : n <= Len(fcurves[axes[a]])

\* curve.values of make_curve before the interpolation step, with the exception
\* that building them raised.
curve_values(self, fcurves, axes, group_name) ==
    LET n == shortest_axis(fcurves, axes)
        co(a) == co_values(fcurves[axes[a]])
    IN CASE Len(axes) = 3 ->
              transform_location(self, group_name,
                  [i \in 1..n |-> <<co(1)[i], co(2)[i], co(3)[i]>>])
         [] Len(axes) = 4 ->
              transform_rotation(self, group_name,
                  [i \in 1..n |-> Quaternion(co(1)[i], co(2)[i], co(3)[i], co(4)[i])])
         [] OTHER ->
              LET pat == IF self.is_dragon_engine THEN co(1)
                         ELSE correct_pattern(co(1))
                  pairs == pattern1_from_blender(pat)
              IN [err |-> pairs.err,
                  values |-> IF pairs.err # "none" THEN <<>>
                             ELSE [i \in 1..Len(pat) |->
                                     <<pairs.value[1][i], pairs.value[2][i]>>]]

\* foreach_get("interpolation", axis_pol) takes a list as long as the FCurve has
\* keyframes; axis_pol is as long as the first axis.
foreach_get_fits(fcurves, axes) ==
    \A a \in 1..Len(axes) : Len(fcurves[axes[a]]) = Len(fcurves[axes[1]])

\* make_curve: the frames are those of the first axis; the values are the
\* transformed vectors or quaternions, or the [start, end] pairs of the
\* (corrected) pattern numbers of a hand; then the keyframes of a position or
\* rotation are duplicated where they are held (interpolate is False for Pat1).
make_curve(self, fcurves, axes, curve_format, group_name) ==
    LET built == curve_values(self, fcurves, axes, group_name)
        interpolate == Len(axes) # 1
        graph == [keyframes |-> co_frames(fcurves[axes[1]]),
                  values |-> built.values]
    IN IF built.err # "none"
       THEN [err |-> built.err, curve |-> <<>>]
       ELSE IF interpolate /\ ~foreach_get_fits(fcurves, axes)
       THEN [err |-> "TypeError", curve |-> <<>>]
       ELSE LET out == IF interpolate
                       THEN duplicate_constant(constant_flags(fcurves, axes),
                                               graph, 1, 0)
                       ELSE graph
            IN [err |-> "none",
                curve |-> [curve_format |-> curve_format,
                           keyframes |-> out.keyframes, values |-> out.values]]

\* d[k] = v of a Python dict held as a function.
dict_set(d, k, v) == [x \in DOMAIN d \cup {k} |-> IF x = k THEN v ELSE d[x]]

\* The last version whose rotations are written as half floats.
HALF_FLOAT_MAX_VERSION == 65537

LocationAxes == <<"x", "y", "z">>
RotationAxes == <<"w", "x", "y", "z">>

\* "left_" + str(c.array_index) or "right_" + str(c.array_index).
pat1_key(c) ==
    (IF c.property = "pat1_left_hand" THEN "left_" ELSE "right_")
        \o <<"0", "1", "2", "3">>[c.array_index + 1]

\* make_bone's loop over the channels from the i-th on. A channel is
\* [property, array_index, keyframe_points], property the part of its data_path
\* after the last dot. loc_len and rot_len are 0 until a channel with keyframes
\* has been seen.
RECURSIVE make_bone_channels(_, _, _)
make_bone_channels(channels, i, st) ==
    IF i > Len(channels) THEN st
    ELSE LET c == channels[i]
             n == Len(c.keyframe_points)
         IN IF c.property = "location"
            THEN IF st.loc_len # 0 /\ st.loc_len # n
                 THEN [st EXCEPT !.err = "GMTError"]
                 ELSE make_bone_channels(channels, i + 1,
                        [st EXCEPT
                           !.loc_len = IF st.loc_len = 0 THEN n ELSE st.loc_len,
                           !.loc_curves =
                              IF c.array_index \in 0..2
                              THEN dict_set(st.loc_curves,
                                            LocationAxes[c.array_index + 1],
                                            c.keyframe_points)
                              ELSE st.loc_curves])
            ELSE IF c.property = "rotation_quaternion"
            THEN IF st.rot_len # 0 /\ st.rot_len # n
                 THEN [st EXCEPT !.err = "GMTError"]
                 ELSE make_bone_channels(channels, i + 1,
                        [st EXCEPT
                           !.rot_len = IF st.rot_len = 0 THEN n ELSE st.rot_len,
                           !.rot_curves =
                              IF c.array_index \in 0..3
                              THEN dict_set(st.rot_curves,
                                            RotationAxes[c.array_index + 1],
                                            c.keyframe_points)
                              ELSE st.rot_curves])
            ELSE IF c.property \in {"pat1_left_hand", "pat1_right_hand"}
            THEN make_bone_channels(channels, i + 1,
                    [st EXCEPT
                       !.pat1_order =
                          IF pat1_key(c) \in DOMAIN st.pat1_curves
                          THEN st.pat1_order
                          ELSE Append(st.pat1_order, pat1_key(c)),
                       !.pat1_curves =
                          dict_set(st.pat1_curves, pat1_key(c), c.keyframe_points)])
            ELSE make_bone_channels(channels, i + 1, st)

\* bone.curves.append(make_curve(..)) for each curve of the sequence calls: the
\* first make_curve that raises ends make_bone.
RECURSIVE append_curves(_, _)
append_curves(calls, curves) ==
    IF Len(calls) = 0 THEN [err |-> "none", curves |-> curves]
    ELSE IF Head(calls).err # "none"
    THEN [err |-> Head(calls).err, curves |-> <<>>]
    ELSE append_curves(Tail(calls), Append(curves, Head(calls).curve))

\* make_bone: the channels of one group become the curves of one bone, or an
\* exception and no bone.
make_bone(self, bone_name, channels) ==
    LET st == make_bone_channels(channels, 1,
                [err |-> "none", loc_len |-> 0, rot_len |-> 0,
                 loc_curves |-> <<>>, rot_curves |-> <<>>,
                 pat1_curves |-> <<>>, pat1_order |-> <<>>])
        format == IF self.version > HALF_FLOAT_MAX_VERSION
                  THEN "ROT_QUAT_SCALED" ELSE "ROT_QUAT_HALF_FLOAT"
        loc_calls == IF DOMAIN st.loc_curves = {"x", "y", "z"}
                     THEN << make_curve(self, st.loc_curves, LocationAxes,
                                        "POS_VEC3", bone_name) >>
                     ELSE <<>>
        rot_calls == IF DOMAIN st.rot_curves = {"w", "x", "y", "z"}
                     THEN << make_curve(self, st.rot_curves, RotationAxes,
                                        format, bone_name) >>
                     ELSE <<>>
        pat_calls == [p \in 1..Len(st.pat1_order) |->
                        make_curve(self, st.pat1_curves, <<st.pat1_order[p]>>,
                                   IF st.pat1_order[p] \in {"left_0", "left_1",
                                                            "left_2", "left_3"}
                                   THEN "PAT1_LEFT_HAND" ELSE "PAT1_RIGHT_HAND",
                                   bone_name)]
        made == append_curves(loc_calls \o rot_calls \o pat_calls, <<>>)
    IN IF st.err # "none"
       THEN [err |-> st.err, bone |-> None]
       ELSE IF made.err # "none"
       THEN [err |-> made.err, bone |-> None]
       ELSE [err |-> "none", bone |-> [name |-> bone_name, curves |-> made.curves]]

\* get_anm: the bones of the exported animation, one per FCurve group of the
\* action, with centre, vector and scale arranged for the target engine.
\* find_bone, new_pos_curve and new_rot_curve are gmt_lib's; they are modelled
\* by what get_anm relies on: find_bone gives the first bone of that name and
\* its index from 0, or a fresh bone without curves and -1; a new curve has one
\* keyframe at frame 0 with the rest value.
find_bone(name, bones) ==
    LET at == { i \in 1..Len(bones) : bones[i].name = name }
    IN IF at = {}
       THEN [bone |-> [name |-> "", curves |-> <<>>], index |-> -1]
       ELSE LET i == CHOOSE j \in at : \A k \in at : j <= k
            IN [bone |-> bones[i], index |-> i - 1]

new_pos_curve ==
    [curve_format |-> "POS_VEC3", keyframes |-> <<0>>, values |-> <<ZeroVector>>]

new_rot_curve ==
    [curve_format |-> "ROT_QUAT_SCALED", keyframes |-> <<0>>,
     values |-> <<IdentityQuaternion>>]

in_data_path_gmt(c) == c.gmt
not_in_data_path_gmt(c) == ~c.gmt

\* The "else" branch of the loop of get_anm once its bones are made: found is
\* what find_bone gave, center_made the bone of the "gmt_" channels, made when
\* the centre found has no curves, vector the bone of the other channels.
get_anm_arrange(self, bones, found, center_made, vector) ==
    LET remake == Len(found.bone.curves) = 0
        center == IF remake
                  THEN [center_made EXCEPT !.name = "center_c_n"]
                  ELSE found.bone
        \* where the object "center" sits in anm.bones, from 1
        center_at == IF found.index # -1 THEN found.index + 1 ELSE 1
        placed == IF ~remake THEN bones
                  ELSE IF found.index # -1
                  THEN [bones EXCEPT ![found.index + 1] = center]
                  ELSE InsertAt(bones, 1, center)
        appended == Append(placed, vector)
    IN IF self.is_dragon_engine
       THEN IF Len(center.curves) = 0
            THEN [appended EXCEPT ![center_at].curves =
                                     <<new_pos_curve, new_rot_curve>>]
            ELSE appended
       ELSE \* "c = c.to_horizontal()" and "c = add_curve(c, vertical)" bind
            \* the loop's own name: the lists keep their curves
            InsertAt([appended EXCEPT ![center_at].curves = vector.curves],
                     1,
                     [name |-> "scale",
                      curves |-> <<new_pos_curve, new_rot_curve>>])

\* The make_bone calls of one turn of the loop of get_anm and their outcomes:
\* one for a group that is not vector_c_n; for vector_c_n one on the channels
\* with "gmt_" in their data path, of use when the centre found has no curves,
\* and one on the other channels.
get_anm_make_bones(self, group) ==
    IF group.name # "vector_c_n"
    THEN [bone |-> make_bone(self, group.name, group.channels)]
    ELSE [center |-> make_bone(self, group.name,
                               SelectSeq(group.channels, in_data_path_gmt)),
          vector |-> make_bone(self, group.name,
                               SelectSeq(group.channels, not_in_data_path_gmt))]

\* The "else" branch of the loop of get_anm: the group is vector_c_n, made
\* holds the outcomes of its make_bone calls.
get_anm_vector(self, bones, found, made) ==
    IF Len(found.bone.curves) = 0 /\ made.center.err # "none"
    THEN [err |-> made.center.err, bones |-> bones]
    ELSE IF made.vector.err # "none"
    THEN [err |-> made.vector.err, bones |-> bones]
    ELSE [err |-> "none",
          bones |-> get_anm_arrange(self, bones, found, made.center.bone,
                                    made.vector.bone)]

\* "for group in action.groups.values()" from group i on; made[i] holds the
\* outcomes of the make_bone calls of group i.
RECURSIVE get_anm_groups(_, _, _, _, _)
get_anm_groups(self, groups, made, i, bones) ==
    IF i > Len(groups) THEN [err |-> "none", bones |-> bones]
    ELSE IF groups[i].name # "vector_c_n"
    THEN IF made[i].bone.err # "none"
         THEN [err |-> made[i].bone.err, bones |-> bones]
         ELSE get_anm_groups(self, groups, made, i + 1,
                             Append(bones, made[i].bone.bone))
    ELSE LET r == get_anm_vector(self, bones,
                                 find_bone("center_c_n", bones), made[i])
         IN IF r.err # "none" THEN r
            ELSE get_anm_groups(self, groups, made, i + 1, r.bones)

\* The exporter once setup_bone_locs has read the bones of the armature.
with_bone_props(self, armature) ==
    [bone_props |-> armature, version |-> self.version,
     is_dragon_engine |-> self.is_dragon_engine]

\* What get_anm leaves when its loop ended with r: on an exception no
\* animation is put in gmt_file.animations.
get_anm_animation(r) ==
    IF r.err # "none" THEN [err |-> r.err, bones |-> <<>>] ELSE r

\* get_anm: armature is the descriptor table of the armature
\* bpy.data.armatures has under skeleton_name, or None; the outcome is an
\* exception, or the bones of the animation put in gmt_file.animations.
get_anm(self, armature, groups) ==
    IF armature = None
    THEN [err |-> "GMTError", bones |-> <<>>]
    ELSE get_anm_animation(
            get_anm_groups(
                self, groups,
                [i \in 1..Len(groups) |->
                    get_anm_make_bones(with_bone_props(self, armature),
                                       groups[i])],
                1, <<>>))

-----------------------------------------------------------------------------
(* importer.py: add_curve *)

\* A GMTCurve is [type, keyframes], keyframes a sequence of GMTKeyframe
\* [frame, value] in the order of the list.
GMTCurve(type) == [type |-> type, keyframes |-> <<>>]
GMTKeyframe(frame, value) == [frame |-> frame, value |-> value]

\* Vector.lerp(v2, num/den): v1 + (v2 - v1) * num / den.
vector_lerp(v1, v2, num, den) ==
    [c \in 1..3 |-> v1[c] + ((v2[c] - v1[c]) * num) \div den]

\* Quaternion.slerp(q2, num/den), the fraction in lowest terms.
quaternion_slerp(q1, q2, num, den) ==
    [slerp |-> <<q1, q2>>,
     num |-> num \div Gcd(num, den), den |-> den \div Gcd(num, den)]

add_swapped(type, v1, v2) ==
    IF type = "LOCATION" THEN vector_add(v2, v1) ELSE quaternion_mul(v2, v1)

\* The closures add and lerp that add_curve defines for the curve's type.
add(type, v1, v2) ==
    IF type = "LOCATION" THEN vector_add(v1, v2) ELSE quaternion_mul(v1, v2)

lerp(type, v1, v2, num, den) ==
    IF type = "LOCATION" THEN vector_lerp(v1, v2, num, den)
    ELSE quaternion_slerp(v1, v2, num, den)

\* GMTCurve.get_end_frame: the frame of the last keyframe, 0 for an empty curve.
get_end_frame(c) ==
    IF Len(c.keyframes) = 0 THEN 0 ELSE c.keyframes[Len(c.keyframes)].frame

\* {kf.frame: kf.value for kf in keyframes}: the keys in insertion order, and
\* dict.get.  The frames of a curve are unique, so every keyframe is a key.
dict_keys(keyframes) == [n \in 1..Len(keyframes) |-> keyframes[n].frame]
dict_has(keyframes, i) == \E n \in 1..Len(keyframes) : keyframes[n].frame = i
dict_get(keyframes, i) ==
    keyframes[CHOOSE n \in 1..Len(keyframes) : keyframes[n].frame = i].value

\* next((k for k in reversed(keys) if k < i), default), reading keys[n] downwards.
RECURSIVE last_less(_, _, _, _)
last_less(keys, n, i, default) ==
    IF n = 0 THEN default
    ELSE IF keys[n] < i THEN keys[n] ELSE last_less(keys, n - 1, i, default)

\* next((k for k in keys if k > i), default), reading keys[n] upwards.
RECURSIVE first_more(_, _, _, _)
first_more(keys, n, i, default) ==
    IF n > Len(keys) THEN default
    ELSE IF keys[n] > i THEN keys[n] ELSE first_more(keys, n + 1, i, default)

\* The value of a curve at a frame i it has no keyframe on (lines 437-444).
interpolated(type, keyframes, i) ==
    LET keys == dict_keys(keyframes)
        less == last_less(keys, Len(keys), i, keyframes[1].frame)
        more == first_more(keys, 1, i, keyframes[Len(keyframes)].frame)
    IN IF less # more
       THEN lerp(type, dict_get(keyframes, less), dict_get(keyframes, more),
                 i - less, more - less)
       ELSE dict_get(keyframes, less)

value_at(type, keyframes, i) ==
    IF dict_has(keyframes, i) THEN dict_get(keyframes, i)
    ELSE interpolated(type, keyframes, i)

\* The loop over range(end + 1) from frame i on: a keyframe for every frame that
\* has one in either curve.
RECURSIVE merged_keyframes(_, _, _, _, _)
merged_keyframes(type, kfs1, kfs2, i, end) ==
    IF i > end THEN <<>>
    ELSE (IF dict_has(kfs1, i) \/ dict_has(kfs2, i)
          THEN <<GMTKeyframe(i, add(type, value_at(type, kfs1, i),
                                          value_at(type, kfs2, i)))>>
          ELSE <<>>)
         \o merged_keyframes(type, kfs1, kfs2, i + 1, end)

add_curve_check_seed_first(c, o) ==
    LET seeded == IF Len(c.keyframes) = 0 /\ c.type \in {"LOCATION", "ROTATION"}
                  THEN [c EXCEPT !.keyframes =
                          <<GMTKeyframe(0, IF c.type = "LOCATION" THEN ZeroVector
                                           ELSE IdentityQuaternion)>>]
                  ELSE c
    IN IF c.type # o.type \/ c.type \notin {"LOCATION", "ROTATION"}
       THEN [err |-> "Exception", curve |-> seeded]
       ELSE [err |-> "none", curve |-> seeded]

add_curve_check_no_seed(c, o) ==
    IF c.type # o.type \/ c.type \notin {"LOCATION", "ROTATION"}
    THEN [err |-> "Exception", curve |-> c]
    ELSE [err |-> "none", curve |-> c]

\* add_curve, lines 398-416: the type checks, and the identity keyframe an empty
\* curve is given.  The result is the exception raised and the curve as it is left.
add_curve_check(c, o) ==
    IF c.type # o.type THEN [err |-> "Exception", curve |-> c]
    ELSE IF c.type = "LOCATION"
    THEN [err |-> "none",
          curve |-> IF Len(c.keyframes) = 0
                    THEN [c EXCEPT !.keyframes = <<GMTKeyframe(0, ZeroVector)>>]
                    ELSE c]
    ELSE IF c.type = "ROTATION"
    THEN [err |-> "none",
          curve |-> IF Len(c.keyframes) = 0
                    THEN [c EXCEPT !.keyframes =
                            <<GMTKeyframe(0, IdentityQuaternion)>>]
                    ELSE c]
    ELSE [err |-> "Exception", curve |-> c]

add_curve_merge_primary_frames(c, o) ==
    IF Len(c.keyframes) = 0 \/ Len(o.keyframes) = 0
    THEN [err |-> "IndexError", curve |-> c]
    ELSE [err |-> "none",
          curve |-> [c EXCEPT !.keyframes =
                        [n \in 1..Len(c.keyframes) |->
                            GMTKeyframe(c.keyframes[n].frame,
                                add(c.type, c.keyframes[n].value,
                                    value_at(c.type, o.keyframes,
                                             c.keyframes[n].frame)))]]]

\* add_curve, lines 418-453: keyframes[0] of an empty list raises IndexError;
\* otherwise the curve gets the merged keyframes.
add_curve_merge(c, o) ==
    IF Len(c.keyframes) = 0 \/ Len(o.keyframes) = 0
    THEN [err |-> "IndexError", curve |-> c]
    ELSE [err |-> "none",
          curve |-> [c EXCEPT !.keyframes =
                        merged_keyframes(c.type, c.keyframes, o.keyframes, 0,
                            IF get_end_frame(c) > get_end_frame(o)
                            THEN get_end_frame(c) ELSE get_end_frame(o))]]

\* add_curve as a whole.
add_curve(c, o) ==
    LET checked == add_curve_check(c, o)
    IN IF checked.err # "none" THEN checked
       ELSE add_curve_merge(checked.curve, o)

-----------------------------------------------------------------------------
(* importer.py: merge_vector and the part of make_actions that calls it *)

\* A GMTBone with its location and its rotation curve.
GMTBone(location, rotation) == [location |-> location, rotation |-> rotation]

\* convert_gmt_curve_to_blender: every keyframe value of a LOCATION or ROTATION
\* curve goes to Blender space (the curves here have all their channels).
convert_gmt_curve_to_blender(c) ==
    IF c.type = "LOCATION"
    THEN [c EXCEPT !.keyframes =
            [n \in 1..Len(c.keyframes) |->
                GMTKeyframe(c.keyframes[n].frame, pos_to_blender(c.keyframes[n].value))]]
    ELSE IF c.type = "ROTATION"
    THEN [c EXCEPT !.keyframes =
            [n \in 1..Len(c.keyframes) |->
                GMTKeyframe(c.keyframes[n].frame, rot_to_blender(c.keyframes[n].value))]]
    ELSE c

convert_bone(bone) ==
    IF bone = None THEN None
    ELSE GMTBone(convert_gmt_curve_to_blender(bone.location),
                 convert_gmt_curve_to_blender(bone.rotation))

merge_vector_auth_for_all(center_bone, vector_bone, vector_version, is_auth) ==
    IF vector_version = "NO_VECTOR" \/ center_bone = None \/ vector_bone = None
    THEN [center |-> center_bone, vector |-> vector_bone, err |-> "none"]
    ELSE IF ~is_auth
    THEN LET loc == add_curve(center_bone.location, vector_bone.location)
             rot == add_curve(center_bone.rotation, vector_bone.rotation)
         IN IF loc.err # "none"
            THEN [center |-> [center_bone EXCEPT !.location = loc.curve],
                  vector |-> vector_bone, err |-> loc.err]
            ELSE IF rot.err # "none"
            THEN [center |-> GMTBone(loc.curve, rot.curve),
                  vector |-> vector_bone, err |-> rot.err]
            ELSE [center |-> GMTBone(loc.curve, rot.curve),
                  vector |-> GMTBone(GMTCurve("LOCATION"), GMTCurve("ROTATION")),
                  err |-> "none"]
    ELSE [center |-> center_bone,
          vector |-> GMTBone(GMTCurve("LOCATION"), GMTCurve("ROTATION")),
          err |-> "none"]

merge_vector_dragon_skipped(center_bone, vector_bone, vector_version, is_auth) ==
    IF vector_version = "NO_VECTOR" \/ center_bone = None \/ vector_bone = None
    THEN [center |-> center_bone, vector |-> vector_bone, err |-> "none"]
    ELSE IF vector_version = "OLD_VECTOR" /\ ~is_auth
    THEN LET loc == add_curve(center_bone.location, vector_bone.location)
             rot == add_curve(center_bone.rotation, vector_bone.rotation)
         IN IF loc.err # "none"
            THEN [center |-> [center_bone EXCEPT !.location = loc.curve],
                  vector |-> vector_bone, err |-> loc.err]
            ELSE IF rot.err # "none"
            THEN [center |-> GMTBone(loc.curve, rot.curve),
                  vector |-> vector_bone, err |-> rot.err]
            ELSE [center |-> GMTBone(loc.curve, rot.curve),
                  vector |-> GMTBone(GMTCurve("LOCATION"), GMTCurve("ROTATION")),
                  err |-> "none"]
    ELSE [center |-> center_bone,
          vector |-> GMTBone(GMTCurve("LOCATION"), GMTCurve("ROTATION")),
          err |-> "none"]

\* merge_vector: the bones as it leaves them and the exception it raised.  An
\* exception of the first add_curve ends the call before the second, and one of
\* either ends it before the vector's curves are reset.
merge_vector(center_bone, vector_bone, vector_version, is_auth) ==
    IF vector_version = "NO_VECTOR" \/ center_bone = None \/ vector_bone = None
    THEN [center |-> center_bone, vector |-> vector_bone, err |-> "none"]
    ELSE IF (vector_version = "OLD_VECTOR" /\ ~is_auth)
            \/ vector_version = "DRAGON_VECTOR"
    THEN LET loc == add_curve(center_bone.location, vector_bone.location)
             rot == add_curve(center_bone.rotation, vector_bone.rotation)
         IN IF loc.err # "none"
            THEN [center |-> [center_bone EXCEPT !.location = loc.curve],
                  vector |-> vector_bone, err |-> loc.err]
            ELSE IF rot.err # "none"
            THEN [center |-> GMTBone(loc.curve, rot.curve),
                  vector |-> vector_bone, err |-> rot.err]
            ELSE [center |-> GMTBone(loc.curve, rot.curve),
                  vector |-> GMTBone(GMTCurve("LOCATION"), GMTCurve("ROTATION")),
                  err |-> "none"]
    ELSE [center |-> center_bone,
          vector |-> GMTBone(GMTCurve("LOCATION"), GMTCurve("ROTATION")),
          err |-> "none"]

\* make_actions, lines 346-353: the curves of the bones go to Blender space, and
\* with merge_vector_curves set vector_c_n is merged into center_c_n.
make_actions(bones, vector_version, merge_vector_curves, is_auth) ==
    LET center == convert_bone(bones.center_c_n)
        vector == convert_bone(bones.vector_c_n)
    IN IF merge_vector_curves
       THEN merge_vector(center, vector, vector_version, is_auth)
       ELSE [center |-> center, vector |-> vector, err |-> "none"]

-----------------------------------------------------------------------------
(* importer.py, exporter.py: the operators' execute *)

\* A Python object by its type and its repr; str is the type object.
Py(type, repr) == [type |-> type, repr |-> repr]
str == Py("type", "<class 'str'>")

\* "a is b": the same object.
python_is(a, b) == a = b

\* An object of the scene is "armature" (with bones), "bare_armature" (without
\* bones), "mesh" (no armature deforms it), "rigged" (a mesh deformed by an
\* armature with bones), "bare_rigged" (a mesh deformed by an armature without
\* bones) or "other"; the active object can also be None.
\* check_armature: 0 when the active object, or the armature of the first
\* deformed mesh of its collection, is an armature with bones, else the message;
\* active is the active object as it leaves it.
check_armature(scene, message) ==
    LET meshObjects == SelectSeq(scene.objects,
                                 LAMBDA o : o \in {"rigged", "bare_rigged"})
    IN IF scene.active = "armature"
       THEN [arm |-> Py("int", "0"), active |-> scene.active]
       ELSE IF Len(meshObjects) > 0 /\ meshObjects[1] = "rigged"
       THEN [arm |-> Py("int", "0"), active |-> "armature"]
       ELSE [arm |-> Py("str", message), active |-> scene.active]

\* importer.read(): a .cmt file that cannot be read raises GMTError; a .gmt
\* file is read and make_actions works on the active object, which raises
\* AttributeError when there is none or it has no pose.
importer_read(file, active) ==
    IF file.ext = ".cmt"
    THEN IF file.readable THEN "none" ELSE "GMTError"
    ELSE IF active \in {"armature", "bare_armature"} THEN "none"
    ELSE "AttributeError"

\* ImportGMT.execute.
import_execute(scene, file) ==
    LET checked == check_armature(scene, "No armature found to add animation to")
        arm == checked.arm
        read == importer_read(file, checked.active)
    IN IF python_is(arm, str)
       THEN [started |-> FALSE, reports |-> << <<"ERROR", arm.repr>> >>,
             result |-> "CANCELLED", raised |-> "none", active |-> checked.active]
       ELSE IF read = "none"
       THEN [started |-> TRUE, reports |-> <<>>,
             result |-> "FINISHED", raised |-> "none", active |-> checked.active]
       ELSE IF read = "GMTError"
       THEN [started |-> TRUE, reports |-> << <<"ERROR", read>> >>,
             result |-> "CANCELLED", raised |-> "none", active |-> checked.active]
       ELSE [started |-> TRUE, reports |-> <<>>,
             result |-> "none", raised |-> read, active |-> checked.active]

\* GMTExporter.export(): get_anm raises GMTError when no armature has the name
\* of the skeleton setting, and what the building of the bones raises (build);
\* the file is opened and written after that.
exporter_export_write_first(settings_, disk) ==
    IF ~settings_.skeleton_found THEN [raised |-> "GMTError", disk |-> "written"]
    ELSE IF settings_.build # "none"
    THEN [raised |-> settings_.build, disk |-> "written"]
    ELSE [raised |-> "none", disk |-> "written"]

exporter_export(settings_, disk) ==
    IF ~settings_.skeleton_found THEN [raised |-> "GMTError", disk |-> disk]
    ELSE IF settings_.build # "none" THEN [raised |-> settings_.build, disk |-> disk]
    ELSE [raised |-> "none", disk |-> "written"]

\* ExportGMT.execute.
export_execute(scene, settings_, disk) ==
    LET checked == check_armature(scene, "No armature found to get animation from")
        arm == checked.arm
        export == exporter_export(settings_, disk)
    IN IF python_is(arm, str)
       THEN [started |-> FALSE, reports |-> << <<"ERROR", arm.repr>> >>,
             result |-> "CANCELLED", raised |-> "none", active |-> checked.active,
             disk |-> disk]
       ELSE IF export.raised = "none"
       THEN [started |-> TRUE, reports |-> << <<"INFO", "Finished exporting">> >>,
             result |-> "FINISHED", raised |-> "none", active |-> checked.active,
             disk |-> export.disk]
       ELSE IF export.raised = "GMTError"
       THEN [started |-> TRUE, reports |-> << <<"ERROR", export.raised>> >>,
             result |-> "CANCELLED", raised |-> "none", active |-> checked.active,
             disk |-> export.disk]
       ELSE [started |-> TRUE, reports |-> <<>>,
             result |-> "none", raised |-> export.raised, active |-> checked.active,
             disk |-> export.disk]

-----------------------------------------------------------------------------
(* The conversions, one value at a time *)

idleCv == cv_op = "idle" /\ cv_in = <<>> /\ cv_mid = <<>> /\ cv_out = <<>>
          /\ cv_pc = "idle"
idleAc == curve = <<>> /\ other = <<>> /\ curve_before = <<>>
          /\ ac_pc = "idle" /\ ac_err = "none"
idleMv == gmt = <<>> /\ settings = <<>> /\ run = <<>>
idleEx == ex = <<>>
idleBt == bt = <<>>
idleCam == cam = <<>>
idleUi == ui = <<>>
idleRest == idleEx /\ idleBt /\ idleCam /\ idleUi

\* Pattern numbers of a hand FCurve: two the old engine knows, one it does not.
PatternCodes == {2, 5, OLD_ENGINE_MAX_PATTERN + 1}
Interpolations == {CONSTANT_INTERPOLATION, 1}

\* The keyframe_points an FCurve can hold: strictly increasing frames.
KeyframePoints(values) ==
    UNION { { [i \in 1..Len(SetToSortedSeq(F)) |->
                 [co |-> <<SetToSortedSeq(F)[i], v[SetToSortedSeq(F)[i]]>>,
                  interpolation |-> p[SetToSortedSeq(F)[i]]]]
              : v \in [F -> values], p \in [F -> Interpolations] }
            : F \in SUBSET Frames }

InitConv ==
    /\ cv_op \in {"pos", "rot", "pat"}
    /\ cv_in \in CASE cv_op = "pos" -> Coords \X Coords \X Coords
                   [] cv_op = "rot" -> Coords \X Coords \X Coords \X Coords
                   [] cv_op = "pat" -> [fcurve : KeyframePoints(PatternCodes),
                                        is_dragon_engine : BOOLEAN]
    /\ cv_mid = <<>> /\ cv_out = <<>> /\ cv_pc = "start"
    /\ idleAc /\ idleMv /\ idleRest

PosToBlender ==
    /\ cv_op = "pos" /\ cv_pc = "start"
    /\ cv_mid' = pos_to_blender(cv_in)
    /\ cv_pc' = "converted"
    /\ UNCHANGED <<cv_op, cv_in, cv_out, acVars, mvVars, restVars>>

PosFromBlender ==
    /\ cv_op = "pos" /\ cv_pc = "converted"
    /\ cv_out' = pos_from_blender(cv_mid)
    /\ cv_pc' = "restored"
    /\ UNCHANGED <<cv_op, cv_in, cv_mid, acVars, mvVars, restVars>>

RotToBlender ==
    /\ cv_op = "rot" /\ cv_pc = "start"
    /\ cv_mid' = rot_to_blender(cv_in)
    /\ cv_pc' = "converted"
    /\ UNCHANGED <<cv_op, cv_in, cv_out, acVars, mvVars, restVars>>

RotFromBlender ==
    /\ cv_op = "rot" /\ cv_pc = "converted"
    /\ cv_out' = rot_from_blender(cv_mid)
    /\ cv_pc' = "restored"
    /\ UNCHANGED <<cv_op, cv_in, cv_mid, acVars, mvVars, restVars>>

\* make_bone's call of make_curve for the pat1 FCurve of the left hand.
ExportPattern ==
    /\ cv_op = "pat" /\ cv_pc = "start"
    /\ LET r == make_curve([bone_props |-> <<>>,
                            is_dragon_engine |-> cv_in.is_dragon_engine],
                           [left_0 |-> cv_in.fcurve], <<"left_0">>,
                           "PAT1_LEFT_HAND", "pattern_c_n")
       IN IF r.err = "none"
          THEN cv_mid' = r.curve /\ cv_pc' = "converted"
          ELSE cv_mid' = r.err /\ cv_pc' = "raised"
    /\ UNCHANGED <<cv_op, cv_in, cv_out, acVars, mvVars, restVars>>

\* The decoding of the exported pairs.
ImportPattern ==
    /\ cv_op = "pat" /\ cv_pc = "converted"
    /\ cv_out' = pattern1_to_blender(cv_mid.values)
    /\ cv_pc' = "restored"
    /\ UNCHANGED <<cv_op, cv_in, cv_mid, acVars, mvVars, restVars>>

NextConv ==
    \/ PosToBlender
    \/ PosFromBlender
    \/ RotToBlender
    \/ RotFromBlender
    \/ ExportPattern
    \/ ImportPattern

SpecConv == InitConv /\ [][NextConv]_vars

-----------------------------------------------------------------------------
(* Properties of the conversions *)

SumSq4(a, b, c, d) == a * a + b * b + c * c + d * d

\* C1: once a position p has gone to Blender and back, the result is p, and the
\* Blender position is (-p.x, p.z, p.y).
C1_PosRoundTrip ==
    (cv_op = "pos" /\ cv_pc = "restored") =>
        /\ cv_out = cv_in
        /\ cv_mid = <<0 - cv_in[1], cv_in[3], cv_in[2]>>

C1_Witness ==
    /\ cv_op = "pos" /\ cv_pc = "restored"
    /\ cv_in[1] # 0 /\ cv_in[2] # cv_in[3]

\* C2: once an engine quaternion q = (x, y, z, w) has gone to Blender and back,
\* the result is q component for component, the Blender quaternion is
\* (w, -x, z, y) with w first, and the sum of squared components never changed.
C2_RotRoundTrip ==
    (cv_op = "rot" /\ cv_pc \in {"converted", "restored"}) =>
        /\ cv_mid = [w |-> cv_in[4], x |-> 0 - cv_in[1],
                     y |-> cv_in[3], z |-> cv_in[2]]
        /\ SumSq4(cv_mid.w, cv_mid.x, cv_mid.y, cv_mid.z)
             = SumSq4(cv_in[1], cv_in[2], cv_in[3], cv_in[4])
        /\ cv_pc = "restored" =>
            /\ cv_out = cv_in
            /\ SumSq4(cv_out[1], cv_out[2], cv_out[3], cv_out[4])
                 = SumSq4(cv_in[1], cv_in[2], cv_in[3], cv_in[4])

C2_Witness ==
    /\ cv_op = "rot" /\ cv_pc = "restored"
    /\ cv_in[1] # 0 /\ cv_in[2] # cv_in[3] /\ cv_in[4] # cv_in[1]
    /\ cv_in[2] # 0

\* C3: a PatternHand curve of N >= 0 codes exports without error to N pairs,
\* pair i being (code_i, code_{i+1}) and the last (code_N, code_N), on the N
\* source frames, and decoding the pairs gives back the N codes.
C3_PatternPairs ==
    (cv_op = "pat" /\ cv_pc # "start") =>
        LET codes == co_values(cv_in.fcurve)
            N == Len(codes)
        IN /\ cv_pc # "raised"
           /\ Len(cv_mid.values) = N
           /\ \A i \in 1..N :
                cv_mid.values[i] = <<codes[i], codes[IF i < N THEN i + 1 ELSE N]>>
           /\ cv_mid.keyframes = co_frames(cv_in.fcurve)
           /\ cv_pc = "restored" => cv_out = [i \in 1..N |-> <<codes[i]>>]

-----------------------------------------------------------------------------
(* add_curve on two curves *)

\* Values of the keyframes of a curve in Blender space, two for each type a curve
\* can be merged with; the positions in units of 1/Scale.
KeyframeValues(type) ==
    CASE type = "LOCATION" -> {<<Scale, 0, 0>>, <<0, 2 * Scale, 0 - Scale>>}
      [] type = "ROTATION" -> {Quaternion(0, 1, 0, 0), Quaternion(0, 0, 1, 0)}
      [] OTHER -> {<<2, 5>>}

\* The keyframe lists on the frames of fs: strictly increasing frames.
KeyframeLists(fs, values) ==
    UNION { { [n \in 1..Len(SetToSortedSeq(F)) |->
                 GMTKeyframe(SetToSortedSeq(F)[n], v[SetToSortedSeq(F)[n]])]
              : v \in [F -> values] }
            : F \in SUBSET fs }

CurveTypes == {"LOCATION", "ROTATION", "PATTERN_HAND"}

Curves(type) ==
    { [type |-> type, keyframes |-> k] : k \in KeyframeLists(Frames, KeyframeValues(type)) }

InitMerge ==
    /\ \E t1 \in CurveTypes, t2 \in CurveTypes :
          curve \in Curves(t1) /\ other \in Curves(t2)
    /\ curve_before = curve
    /\ ac_pc = "call" /\ ac_err = "none"
    /\ idleCv /\ idleMv /\ idleRest

\* Lines 398-416.
AddCurveCheck ==
    /\ ac_pc = "call"
    /\ LET r == add_curve_check(curve, other)
       IN /\ curve' = r.curve
          /\ ac_err' = r.err
          /\ ac_pc' = IF r.err = "none" THEN "checked" ELSE "raised"
    /\ UNCHANGED <<other, curve_before, cvVars, mvVars, restVars>>

\* Lines 418-453.
AddCurveMerge ==
    /\ ac_pc = "checked"
    /\ LET r == add_curve_merge(curve, other)
       IN /\ curve' = r.curve
          /\ ac_err' = r.err
          /\ ac_pc' = IF r.err = "none" THEN "returned" ELSE "raised"
    /\ UNCHANGED <<other, curve_before, cvVars, mvVars, restVars>>

NextMerge ==
    \/ AddCurveCheck
    \/ AddCurveMerge

SpecMerge == InitMerge /\ [][NextMerge]_vars

-----------------------------------------------------------------------------
(* Properties of add_curve *)

FrameSet(c) == { c.keyframes[n].frame : n \in 1..Len(c.keyframes) }
ValueOn(c, f) == (CHOOSE kf \in { c.keyframes[n] : n \in 1..Len(c.keyframes) } :
                     kf.frame = f).value
StrictlyIncreasing(c) ==
    \A n \in 1..(Len(c.keyframes) - 1) :
        c.keyframes[n].frame < c.keyframes[n + 1].frame
Mergeable(c, o) == c.type = o.type /\ c.type \in {"LOCATION", "ROTATION"}
SetMax(S) == CHOOSE a \in S : \A b \in S : b <= a
SetMin(S) == CHOOSE a \in S : \A b \in S : a <= b

\* C4: after add_curve on two non-empty curves of one kind, the frames of the
\* merged curve are exactly the frames that had a keyframe in either curve,
\* each once and in strictly increasing order.
C4_MergedFramesAreUnion ==
    (/\ ac_pc = "returned"
     /\ Len(curve_before.keyframes) > 0 /\ Len(other.keyframes) > 0) =>
        /\ FrameSet(curve) = FrameSet(curve_before) \cup FrameSet(other)
        /\ StrictlyIncreasing(curve)

C4_Witness ==
    /\ ac_pc = "returned"
    /\ Len(curve_before.keyframes) > 0 /\ Len(other.keyframes) > 0
    /\ FrameSet(curve_before) \ FrameSet(other) # {}
    /\ FrameSet(other) \ FrameSet(curve_before) # {}
    /\ FrameSet(curve_before) \cap FrameSet(other) # {}
    /\ FrameSet(curve) = FrameSet(curve_before) \cup FrameSet(other)
    /\ \E f \in Frames : f \notin FrameSet(curve) /\ f < SetMax(FrameSet(curve))

\* C5: add_curve of a non-empty curve with an empty curve of its kind returns
\* without error, and the curve has its old value on each of its old frames.
C5_MergeWithEmpty ==
    (/\ ac_pc \in {"returned", "raised"}
     /\ Mergeable(curve_before, other)
     /\ Len(curve_before.keyframes) > 0 /\ Len(other.keyframes) = 0) =>
        /\ ac_pc = "returned" /\ ac_err = "none"
        /\ \A f \in FrameSet(curve_before) :
              f \in FrameSet(curve) /\ ValueOn(curve, f) = ValueOn(curve_before, f)

\* C6: add_curve on an empty curve and a non-empty one of its kind first gives
\* the empty curve one identity keyframe on frame 0; when it returns, the curve
\* has on every frame of the other curve the other curve's value, and no other
\* frame but possibly 0, with the value of the other curve's first keyframe.
C6_EmptyPrimary ==
    (/\ ac_pc # "call"
     /\ Mergeable(curve_before, other)
     /\ Len(curve_before.keyframes) = 0 /\ Len(other.keyframes) > 0) =>
        /\ ac_pc # "raised"
        /\ ac_pc = "checked" =>
              curve.keyframes =
                 << [frame |-> 0,
                     value |-> IF curve.type = "LOCATION" THEN <<0, 0, 0>>
                               ELSE [w |-> 1, x |-> 0, y |-> 0, z |-> 0]] >>
        /\ ac_pc = "returned" =>
              /\ \A f \in FrameSet(other) :
                    f \in FrameSet(curve) /\ ValueOn(curve, f) = ValueOn(other, f)
              /\ \A f \in FrameSet(curve) \ FrameSet(other) :
                    f = 0 /\ ValueOn(curve, f) = other.keyframes[1].value
              /\ StrictlyIncreasing(curve)

C6_Witness ==
    /\ ac_pc = "returned"
    /\ Mergeable(curve_before, other)
    /\ Len(curve_before.keyframes) = 0 /\ Len(other.keyframes) > 1
    /\ 0 \notin FrameSet(other) /\ 0 \in FrameSet(curve)
    /\ other.keyframes[1].value # other.keyframes[2].value

\* The keyframes add_curve reads from its first argument c: those it had, or the
\* identity keyframe an empty curve is given.
SeededClaim(c) ==
    IF Len(c.keyframes) > 0 THEN c
    ELSE [c EXCEPT !.keyframes =
            << [frame |-> 0,
                value |-> IF c.type = "LOCATION" THEN <<0, 0, 0>>
                          ELSE [w |-> 1, x |-> 0, y |-> 0, z |-> 0]] >>]

PrimaryRead == SeededClaim(curve_before)

\* The value of the claim for curve c on frame i: the keyframe's value, else
\* the first (last) value before (after) all keyframes, else the interpolation of
\* the nearest keyframes on both sides, as (1 - f) * lo + f * hi for a position.
ClaimedValue(c, i) ==
    LET before == { f \in FrameSet(c) : f < i }
        after == { f \in FrameSet(c) : f > i }
    IN IF i \in FrameSet(c) THEN ValueOn(c, i)
       ELSE IF before = {} THEN c.keyframes[1].value
       ELSE IF after = {} THEN c.keyframes[Len(c.keyframes)].value
       ELSE LET less == SetMax(before)
                more == SetMin(after)
                lo == ValueOn(c, less)
                hi == ValueOn(c, more)
                g == Gcd(i - less, more - less)
            IN IF c.type = "LOCATION"
               THEN [k \in 1..3 |->
                       (lo[k] * (more - i) + hi[k] * (i - less)) \div (more - less)]
               ELSE [slerp |-> <<lo, hi>>, num |-> (i - less) \div g,
                     den |-> (more - less) \div g]

\* Positions are kept exactly: no interpolation of the claim loses a remainder.
ClaimedValueExact(c, i) ==
    LET before == { f \in FrameSet(c) : f < i }
        after == { f \in FrameSet(c) : f > i }
    IN (c.type = "LOCATION" /\ i \notin FrameSet(c) /\ before # {} /\ after # {}) =>
          LET less == SetMax(before)
              more == SetMin(after)
          IN \A k \in 1..3 :
                (ValueOn(c, less)[k] * (more - i) + ValueOn(c, more)[k] * (i - less))
                    % (more - less) = 0

\* C7: every keyframe of the merged curve, on frame i, has the value
\* combine(v1, v2), v1 the first curve's value on i and v2 the second's (sum of
\* vectors, product v1 * v2 of quaternions), each the keyframe's value or the
\* interpolation at fraction (i - less)/(more - less), clamped to the first and
\* the last keyframe.
C7_MergedValues ==
    (ac_pc = "returned" /\ Len(other.keyframes) > 0) =>
        \A i \in FrameSet(curve) :
            LET v1 == ClaimedValue(PrimaryRead, i)
                v2 == ClaimedValue(other, i)
            IN /\ ClaimedValueExact(PrimaryRead, i) /\ ClaimedValueExact(other, i)
               /\ ValueOn(curve, i) =
                    IF curve.type = "LOCATION"
                    THEN <<v1[1] + v2[1], v1[2] + v2[2], v1[3] + v2[3]>>
                    ELSE quaternion_mul(v1, v2)

\* A rotation merge with a frame the first curve interpolates, one it clamps to its
\* last keyframe, and two keyframes whose product depends on the order.
C7_Witness ==
    /\ ac_pc = "returned" /\ curve.type = "ROTATION"
    /\ \E i \in FrameSet(other) \ FrameSet(curve_before) :
          /\ \E f \in FrameSet(curve_before) : f < i
          /\ \E f \in FrameSet(curve_before) : f > i
          /\ ~IsQuaternion(ValueOn(curve, i))
    /\ \E i \in FrameSet(curve_before) \cap FrameSet(other) :
          ValueOn(curve_before, i) # ValueOn(other, i)
    /\ \E i \in FrameSet(curve_before) \ FrameSet(other) :
          /\ \A f \in FrameSet(other) : f < i
          /\ IsQuaternion(ValueOn(curve, i))

\* C8: add_curve on curves of different kinds, or of a kind that is neither
\* LOCATION nor ROTATION, raises and leaves the keyframes as they were.
C8_RejectsOtherKinds ==
    (ac_pc # "call" /\ ~Mergeable(curve_before, other)) =>
        /\ ac_pc = "raised" /\ ac_err = "Exception"
        /\ curve = curve_before

C8_Witness ==
    /\ ac_pc = "raised" /\ ac_err = "Exception"
    /\ curve_before.type = "LOCATION" /\ other.type = "ROTATION"
    /\ Len(curve_before.keyframes) = 0 /\ Len(other.keyframes) > 0
    /\ curve = curve_before

-----------------------------------------------------------------------------
(* Two imports of one GMT file that differ in is_auth *)

VectorVersions == {"NO_VECTOR", "OLD_VECTOR", "DRAGON_VECTOR"}
BoneFrames == 0..MaxBoneFrame
Runs == {1, 2}
IsAuth(r) == r = 2

\* The engine-space value of the keyframe of a bone's curve on frame f.
BoneValue(name, type, f) ==
    IF type = "LOCATION"
    THEN IF name = "center_c_n" THEN <<Scale * (f + 1), 0, Scale>>
         ELSE <<0, Scale * (f + 1), 0 - Scale>>
    ELSE IF name = "center_c_n" THEN <<1, 0, 0, 0>>
         ELSE IF f % 2 = 0 THEN <<0, 1, 0, 0>> ELSE <<0, 0, 0, 1>>

BoneCurves(name, type) ==
    { [type |-> type,
       keyframes |-> [n \in 1..Len(SetToSortedSeq(F)) |->
                        GMTKeyframe(SetToSortedSeq(F)[n],
                                    BoneValue(name, type, SetToSortedSeq(F)[n]))]]
      : F \in SUBSET BoneFrames }

Bones(name) ==
    {None} \cup { GMTBone(l, r) : l \in BoneCurves(name, "LOCATION"),
                                  r \in BoneCurves(name, "ROTATION") }

InitVector ==
    /\ gmt \in [vector_version : VectorVersions,
                bones : [center_c_n : Bones("center_c_n"),
                         vector_c_n : Bones("vector_c_n")]]
    /\ settings \in [merge_vector_curves : BOOLEAN]
    /\ run = [r \in Runs |->
                [pc |-> "read", center |-> gmt.bones.center_c_n,
                 vector |-> gmt.bones.vector_c_n, err |-> "none"]]
    /\ idleCv /\ idleAc /\ idleRest

\* GMTImporter.make_actions of import r.
MakeActions(r) ==
    /\ run[r].pc = "read"
    /\ LET m == make_actions(gmt.bones, gmt.vector_version,
                             settings.merge_vector_curves, IsAuth(r))
       IN run' = [run EXCEPT ![r] =
                    [pc |-> IF m.err = "none" THEN "done" ELSE "raised",
                     center |-> m.center, vector |-> m.vector, err |-> m.err]]
    /\ UNCHANGED <<gmt, settings, cvVars, acVars, restVars>>

NextVector == \E r \in Runs : MakeActions(r)

SpecVector == InitVector /\ [][NextVector]_vars

-----------------------------------------------------------------------------
(* Properties of merge_vector *)

\* The bones as convert_gmt_curve_to_blender leaves them, before any merge.
Converted(name) == convert_bone(gmt.bones[name])

EmptyVectorBone == [location |-> [type |-> "LOCATION", keyframes |-> <<>>],
                    rotation |-> [type |-> "ROTATION", keyframes |-> <<>>]]

\* result is curve c with curve o added into it: a keyframe on every frame of
\* either, with the combined value of the two curves on that frame.
AddedInto(result, c, o) ==
    /\ Len(o.keyframes) > 0
    /\ result.type = c.type
    /\ StrictlyIncreasing(result)
    /\ FrameSet(result) = FrameSet(SeededClaim(c)) \cup FrameSet(o)
    /\ \A i \in FrameSet(result) :
          LET v1 == ClaimedValue(SeededClaim(c), i)
              v2 == ClaimedValue(o, i)
          IN ValueOn(result, i) =
                IF c.type = "LOCATION"
                THEN <<v1[1] + v2[1], v1[2] + v2[2], v1[3] + v2[3]>>
                ELSE quaternion_mul(v1, v2)

\* merge_vector is called and is no no-op.
Merging ==
    /\ settings.merge_vector_curves
    /\ gmt.vector_version # "NO_VECTOR"
    /\ gmt.bones.center_c_n # None /\ gmt.bones.vector_c_n # None

VectorAdded(r) ==
    /\ AddedInto(run[r].center.location, Converted("center_c_n").location,
                 Converted("vector_c_n").location)
    /\ AddedInto(run[r].center.rotation, Converted("center_c_n").rotation,
                 Converted("vector_c_n").rotation)

\* C9 as stated: whenever merge_vector is no no-op, for every vector version and
\* every is_auth, a call that returns has added the vector's location and
\* rotation curves into center's and reset the vector's, and the vector's curves
\* are never changed without having been added.
C9_AddedBeforeReset ==
    \A r \in Runs :
        (run[r].pc # "read" /\ Merging) =>
            /\ (/\ run[r].pc = "done"
                /\ Len(gmt.bones.vector_c_n.location.keyframes) > 0
                /\ Len(gmt.bones.vector_c_n.rotation.keyframes) > 0)
                  => VectorAdded(r) /\ run[r].vector = EmptyVectorBone
            /\ run[r].vector # Converted("vector_c_n") => VectorAdded(r)

\* C9, amended: the same for DRAGON_VECTOR, and for OLD_VECTOR with is_auth
\* false; for OLD_VECTOR with is_auth true the vector's curves are reset without
\* being added, and center's curves are left as they were.
C9_AddedBeforeResetUnlessAuth ==
    \A r \in Runs :
        (run[r].pc # "read" /\ Merging) =>
            IF gmt.vector_version = "OLD_VECTOR" /\ IsAuth(r)
            THEN /\ run[r].pc = "done"
                 /\ run[r].center = Converted("center_c_n")
                 /\ run[r].vector = EmptyVectorBone
            ELSE /\ run[r].pc = "done" =>
                       VectorAdded(r) /\ run[r].vector = EmptyVectorBone
                 /\ run[r].vector # Converted("vector_c_n") => VectorAdded(r)
                 /\ run[r].pc = "raised" =>
                       run[r].vector = Converted("vector_c_n")

C9_Witness ==
    /\ Merging /\ gmt.vector_version = "DRAGON_VECTOR"
    /\ run[2].pc = "done" /\ VectorAdded(2)
    /\ run[2].vector = EmptyVectorBone
    /\ Converted("vector_c_n") # EmptyVectorBone
    /\ run[2].center # Converted("center_c_n")
    /\ FrameSet(gmt.bones.vector_c_n.location)
          \ FrameSet(gmt.bones.center_c_n.location) # {}
    /\ run[1].pc = "done" /\ gmt.bones.center_c_n.rotation.keyframes # <<>>

\* C10: two imports of the same file that differ only in is_auth end with the
\* same center and vector curves (and the same outcome) when the vector version
\* is NO_VECTOR or DRAGON_VECTOR or merge_vector_curves is off; and for
\* NO_VECTOR, or with the center or the vector bone absent, every curve is left
\* as it was converted.
C10_IsAuthOnlyForOldVector ==
    /\ (/\ \A r \in Runs : run[r].pc # "read"
        /\ \/ gmt.vector_version \in {"NO_VECTOR", "DRAGON_VECTOR"}
           \/ ~settings.merge_vector_curves)
          => run[1] = run[2]
    /\ \A r \in Runs :
          (/\ run[r].pc # "read"
           /\ \/ gmt.vector_version = "NO_VECTOR"
              \/ gmt.bones.center_c_n = None
              \/ gmt.bones.vector_c_n = None)
             => /\ run[r].pc = "done"
                /\ run[r].center = Converted("center_c_n")
                /\ run[r].vector = Converted("vector_c_n")

C10_Witness ==
    /\ \A r \in Runs : run[r].pc = "done"
    /\ Merging /\ gmt.vector_version = "DRAGON_VECTOR"
    /\ run[1] = run[2]
    /\ run[1].center.location # Converted("center_c_n").location
    /\ run[1].center.rotation # Converted("center_c_n").rotation
    /\ Len(gmt.bones.center_c_n.location.keyframes) > 0

\* C19: merge_vector is all or nothing: a call that adds either returns with
\* the vector's curves added into both of center's curves and both of the
\* vector's curves reset, or raises and leaves the curves of center and vector
\* as they were.
C19_MergeVectorAllOrNothing ==
    \A r \in Runs :
        (/\ run[r].pc # "read" /\ Merging
         /\ ~(gmt.vector_version = "OLD_VECTOR" /\ IsAuth(r))) =>
            /\ run[r].pc = "done" =>
                  VectorAdded(r) /\ run[r].vector = EmptyVectorBone
            /\ run[r].pc = "raised" =>
                  /\ run[r].center = Converted("center_c_n")
                  /\ run[r].vector = Converted("vector_c_n")

-----------------------------------------------------------------------------
(* The export of one FCurve group *)

\* A keyframe far from the others.
FarFrame == 10
\* The channels whose keyframe counts differ have up to MaxKeys keyframes, the
\* channels keyed together up to MaxKeys + 1.
MaxKeys == 2

ExportFrames == Frames \cup {FarFrame}

\* The interpolation of the axes of one keyframe: 'CONSTANT' on every axis,
\* 'LINEAR' on every axis, or 'CONSTANT' on the first axis only.
HeldPatterns == {"constant", "linear", "first"}

interpolation_on(pattern, a) ==
    IF pattern = "constant" \/ (pattern = "first" /\ a = 1)
    THEN CONSTANT_INTERPOLATION ELSE 1

\* The pose keyed on frame f: a position, or the quaternion of a rotation of
\* the cube.
SourcePosition(f) == <<f, 1, -f>>
SourceQuaternion(f) ==
    << IdentityQuaternion, Quaternion(1, 0, 1, 0),
       Quaternion(0, 1, 0, 0), Quaternion(1, 1, 1, 1) >>[(f % 4) + 1]

\* The FCurve of axis a (from 1) of a property, keyed on the frames fs with the
\* patterns held.
Channel(property, a, fs, held) ==
    [property |-> property,
     array_index |-> a - 1,
     keyframe_points |->
        [n \in 1..Len(fs) |->
            [co |-> << fs[n],
                       IF property = "location" THEN SourcePosition(fs[n])[a]
                       ELSE << SourceQuaternion(fs[n]).w, SourceQuaternion(fs[n]).x,
                               SourceQuaternion(fs[n]).y,
                               SourceQuaternion(fs[n]).z >>[a] >>,
             interpolation |-> interpolation_on(held[fs[n]], a)]]]

AxisCount(property) == IF property = "location" THEN 3 ELSE 4

\* Groups keyed as Blender keys them: every axis on the same frames.
KeyedGroups ==
    UNION { { [a \in 1..AxisCount(property) |->
                 Channel(property, a, SetToSortedSeq(F), held)]
              : held \in [F -> HeldPatterns] }
            : property \in {"location", "rotation_quaternion"},
              F \in { G \in SUBSET ExportFrames : Cardinality(G) <= MaxKeys + 1 } }

\* Groups whose axes were keyed apart: axis a has its first count[a] keyframes
\* on the even frames, and the channels come in any order.
UnevenGroups ==
    UNION { { [i \in 1..AxisCount(property) |->
                 Channel(property, p[i], [n \in 1..count[p[i]] |-> 2 * (n - 1)],
                         [f \in 0..(2 * MaxKeys) |-> "linear"])]
              : p \in Permutations(1..AxisCount(property)),
                count \in [1..AxisCount(property) -> 0..MaxKeys] }
            : property \in {"location", "rotation_quaternion"} }

\* The rest poses of the armature exported: a bone alone, a bone turned under a
\* parent, and an armature without the bone of the group.
SpineAlone ==
    [spine |-> BoneProps(<<0, 1, 0>>, "", ZeroVector,
                         IdentityQuaternion, IdentityQuaternion)]
SpineUnderRoot ==
    [spine |-> BoneProps(<<0, 1, 0>>, "root", <<1, 0, 0>>,
                         Quaternion(0, 1, 0, 0), Quaternion(0, 0, 1, 0)),
     root |-> BoneProps(<<1, 0, 0>>, "", ZeroVector,
                        IdentityQuaternion, Quaternion(0, 0, 0, 1))]
RootAlone ==
    [root |-> BoneProps(<<1, 0, 0>>, "", ZeroVector,
                        IdentityQuaternion, Quaternion(0, 0, 0, 1))]

Exporters ==
    { [bone_props |-> SpineAlone, version |-> HALF_FLOAT_MAX_VERSION,
       is_dragon_engine |-> FALSE],
      [bone_props |-> SpineUnderRoot, version |-> HALF_FLOAT_MAX_VERSION + 1,
       is_dragon_engine |-> TRUE],
      [bone_props |-> RootAlone, version |-> HALF_FLOAT_MAX_VERSION + 1,
       is_dragon_engine |-> TRUE] }

InitExport ==
    /\ \/ \E self \in Exporters, channels \in KeyedGroups :
            ex = [pc |-> "start", self |-> self, bone_name |-> "spine",
                  channels |-> channels, bone |-> None, err |-> "none"]
       \/ \E channels \in UnevenGroups :
            ex = [pc |-> "start",
                  self |-> [bone_props |-> SpineAlone,
                            version |-> HALF_FLOAT_MAX_VERSION,
                            is_dragon_engine |-> FALSE],
                  bone_name |-> "spine",
                  channels |-> channels, bone |-> None, err |-> "none"]
    /\ idleCv /\ idleAc /\ idleMv /\ idleBt /\ idleCam /\ idleUi

\* get_anm's "anm.bones.append(self.make_bone(group.name, group.channels))" for
\* one group.
MakeBone ==
    /\ ex.pc = "start"
    /\ LET r == make_bone(ex.self, ex.bone_name, ex.channels)
       IN ex' = [ex EXCEPT !.pc = IF r.err = "none" THEN "done" ELSE "raised",
                           !.bone = r.bone,
                           !.err = r.err]
    /\ UNCHANGED <<cvVars, acVars, mvVars, bt, cam, ui>>

NextExport == MakeBone

SpecExport == InitExport /\ [][NextExport]_vars

-----------------------------------------------------------------------------
(* Properties of the export of a group *)

\* The channel of axis a (from 1) of the group exported.
AxisChannel(a) ==
    CHOOSE c \in { ex.channels[i] : i \in 1..Len(ex.channels) } :
        c.array_index = a - 1

\* The source keyframes: their frames, whether keyframe i is held on every axis,
\* and the value make_curve gives keyframe i before it duplicates any.
SourceFrames == co_frames(AxisChannel(1).keyframe_points)
Held(i) ==
    \A c \in 1..Len(ex.channels) :
        ex.channels[c].keyframe_points[i].interpolation = CONSTANT_INTERPOLATION
SourceValue(i) ==
    IF Len(ex.channels) = 3
    THEN transform_location(ex.self, ex.bone_name,
            << << AxisChannel(1).keyframe_points[i].co[2],
                  AxisChannel(2).keyframe_points[i].co[2],
                  AxisChannel(3).keyframe_points[i].co[2] >> >>).values[1]
    ELSE transform_rotation(ex.self, ex.bone_name,
            << Quaternion(AxisChannel(1).keyframe_points[i].co[2],
                          AxisChannel(2).keyframe_points[i].co[2],
                          AxisChannel(3).keyframe_points[i].co[2],
                          AxisChannel(4).keyframe_points[i].co[2]) >>).values[1]

\* The one curve of the bone exported.
ExportedCurve == ex.bone.curves[1]
ExportedFrames ==
    { ExportedCurve.keyframes[n] : n \in 1..Len(ExportedCurve.keyframes) }
ExportedOn(f) ==
    ExportedCurve.values[CHOOSE n \in 1..Len(ExportedCurve.keyframes) :
                             ExportedCurve.keyframes[n] = f]

\* The source keyframes that are held over more than one frame.
HeldGaps ==
    { i \in 1..(Len(SourceFrames) - 1) :
        Held(i) /\ SourceFrames[i + 1] - SourceFrames[i] > 1 }

\* C11: make_curve on a Position or Rotation curve inserts, for consecutive
\* source keyframes f_i < f_i+1, exactly one keyframe at f_i+1 - 1 with the
\* value of keyframe i when keyframe i is constant-interpolated (on every
\* axis) and the gap is longer than one frame, and nothing otherwise; frames 0
\* and FarFrame held give (0, FarFrame - 1, FarFrame).
C11_HeldKeyframeDuplicated ==
    ex # <<>> /\ ex.pc = "done" =>
        /\ Len(ExportedCurve.keyframes) = Len(SourceFrames) + Cardinality(HeldGaps)
        /\ ExportedFrames =
              { SourceFrames[i] : i \in 1..Len(SourceFrames) }
              \cup { SourceFrames[i + 1] - 1 : i \in HeldGaps }
        /\ \A i \in HeldGaps :
              ExportedOn(SourceFrames[i + 1] - 1) = SourceValue(i)
        /\ (SourceFrames = <<0, FarFrame>> /\ Held(1)
              => ExportedCurve.keyframes = <<0, FarFrame - 1, FarFrame>>
                 /\ ExportedCurve.values[2] = ExportedCurve.values[1])

\* A held pair is duplicated and a pair that is not held is left alone.
C11_Witness ==
    /\ ex # <<>> /\ ex.pc = "done"
    /\ SourceFrames = <<0, 2, FarFrame>>
    /\ ~Held(1) /\ Held(2)
    /\ ExportedCurve.keyframes = <<0, 2, FarFrame - 1, FarFrame>>
    /\ ExportedCurve.values[3] = ExportedCurve.values[2]
    /\ ExportedCurve.values[3] # ExportedCurve.values[4]

\* C12: the duplication keeps every source keyframe, frame and value, in
\* order: the exported frames are strictly increasing and as many as the
\* exported values, and every source frame carries its source value.
C12_SourceKeyframesKept ==
    ex # <<>> /\ ex.pc = "done" =>
        /\ Len(ExportedCurve.keyframes) = Len(ExportedCurve.values)
        /\ \A n \in 1..(Len(ExportedCurve.keyframes) - 1) :
              ExportedCurve.keyframes[n] < ExportedCurve.keyframes[n + 1]
        /\ \A i \in 1..Len(SourceFrames) :
              /\ SourceFrames[i] \in ExportedFrames
              /\ ExportedOn(SourceFrames[i]) = SourceValue(i)

\* Two held gaps in one curve: keyframes are inserted between source keyframes
\* that all stay.
C12_Witness ==
    /\ ex # <<>> /\ ex.pc = "done"
    /\ SourceFrames = <<0, 2, FarFrame>>
    /\ Held(1) /\ Held(2)
    /\ ExportedCurve.keyframes = <<0, 1, 2, FarFrame - 1, FarFrame>>
    /\ ExportedOn(2) = SourceValue(2)
    /\ ExportedOn(2) # ExportedOn(1)

\* C13: whenever the location (or rotation) channels of a bone do not all have
\* the same number of keyframes, in any channel order and also when a channel
\* has no keyframe, make_bone raises GMTError and produces no curve.
C13_UnevenChannelsRaiseGMTError ==
    ex # <<>> /\ ex.pc # "start"
    /\ (\E a, b \in 1..Len(ex.channels) :
          Len(ex.channels[a].keyframe_points) # Len(ex.channels[b].keyframe_points))
    => ex.err = "GMTError" /\ ex.bone = None

-----------------------------------------------------------------------------
(* One keyframe value through the bone transforms *)

\* Positions are in units of 1/2: <<0, 2, 0>> is the head (0, 1, 0).
\* The descriptors a bone "spine" can have, under no parent, under the
\* registered bone "root", or under a parent "ghost" that has no descriptor.
SpineProps ==
    { BoneProps(head, parent_name, loc, rot, rot_local) :
        head \in { <<0, 2, 0>>, <<1, 0, -1>> },
        parent_name \in { "", "root", "ghost" },
        loc \in { ZeroVector, <<1, 0, 0>> },
        rot \in { IdentityQuaternion, Quaternion(0, 1, 0, 0) },
        rot_local \in { IdentityQuaternion, Quaternion(0, 0, 1, 0) } }

RootProps ==
    { BoneProps(<<2, 0, 0>>, "", ZeroVector, IdentityQuaternion, rot_local) :
        rot_local \in { IdentityQuaternion, Quaternion(0, 0, 0, 1) } }

\* The descriptor tables: with and without "spine", with and without "root".
BoneTables ==
    { [spine |-> s, root |-> r] : s \in SpineProps, r \in RootProps }
    \cup { [spine |-> s] : s \in { p \in SpineProps : p.parent_name # "root" } }
    \cup { [root |-> r] : r \in RootProps }

\* The values of a rotation keyframe in the file, (x, y, z, w): the quaternions
\* of the rotations of the cube.
RawRotations ==
    { <<q.x, q.y, q.z, q.w>> : q \in CubeQuaternions }

InitBone ==
    /\ \E kind \in {"LOCATION", "ROTATION"}, table \in BoneTables :
         \E raw \in (IF kind = "LOCATION" THEN Coords \X Coords \X Coords
                     ELSE RawRotations) :
            bt = [pc |-> "read", kind |-> kind, bone_props |-> table,
                  bone_name |-> "spine",
                  curve |-> [type |-> kind, keyframes |-> <<GMTKeyframe(0, raw)>>],
                  blender |-> <<>>, back |-> <<>>, exported |-> <<>>,
                  err |-> "none"]
    /\ idleCv /\ idleAc /\ idleMv /\ idleEx /\ idleCam /\ idleUi

\* make_actions: convert_gmt_curve_to_blender(curve).
ConvertCurve ==
    /\ bt.pc = "read"
    /\ bt' = [bt EXCEPT !.pc = "converted",
                        !.curve = convert_gmt_curve_to_blender(bt.curve)]
    /\ UNCHANGED <<cvVars, acVars, mvVars, ex, cam, ui>>

\* import_curve: the values of the curve transformed into the bone's space.
TransformToBlender ==
    /\ bt.pc = "converted"
    /\ bt' = [bt EXCEPT
                !.pc = "transformed",
                !.blender =
                    IF bt.kind = "LOCATION"
                    THEN transform_location_to_blender(bt.bone_props, bt.bone_name,
                            <<bt.curve.keyframes[1].value>>)
                    ELSE transform_rotation_to_blender(bt.bone_props, bt.bone_name,
                            <<bt.curve.keyframes[1].value>>)]
    /\ UNCHANGED <<cvVars, acVars, mvVars, ex, cam, ui>>

\* The way back by coordinate_converter's transform_*_from_blender.
TransformFromBlender ==
    /\ bt.pc = "transformed"
    /\ bt' = [bt EXCEPT
                !.pc = "back",
                !.back =
                    IF bt.kind = "LOCATION"
                    THEN transform_location_from_blender(bt.bone_props,
                            bt.bone_name, bt.blender)
                    ELSE transform_rotation_from_blender(bt.bone_props,
                            bt.bone_name, bt.blender)]
    /\ UNCHANGED <<cvVars, acVars, mvVars, ex, cam, ui>>

\* The way back by the exporter: make_curve's self.transform_location or
\* self.transform_rotation.
ExporterTransform ==
    /\ bt.pc = "transformed"
    /\ LET self == [bone_props |-> bt.bone_props]
           r == IF bt.kind = "LOCATION"
                THEN transform_location(self, bt.bone_name, bt.blender)
                ELSE transform_rotation(self, bt.bone_name, bt.blender)
       IN bt' = [bt EXCEPT !.pc = IF r.err = "none" THEN "exported" ELSE "raised",
                           !.exported = r.values,
                           !.err = r.err]
    /\ UNCHANGED <<cvVars, acVars, mvVars, ex, cam, ui>>

NextBone ==
    \/ ConvertCurve
    \/ TransformToBlender
    \/ TransformFromBlender
    \/ ExporterTransform

SpecBone == InitBone /\ [][NextBone]_vars

-----------------------------------------------------------------------------
(* Properties of the bone transforms *)

\* x: the Blender-space value handed to the transform to Blender.
BoneX == bt.curve.keyframes[1].value
\* A Quaternion as the sequence of its components, as Python compares it.
AsTuple(q) == <<q.w, q.x, q.y, q.z>>
\* The value pos_from_blender or rot_from_blender gives for x.
FromBlenderOfX ==
    IF bt.kind = "LOCATION" THEN pos_from_blender(BoneX) ELSE rot_from_blender(BoneX)
Registered == bt.bone_name \in DOMAIN bt.bone_props
\* Two file quaternions (x, y, z, w) that turn alike.
SameTurn(t1, t2) ==
    t1 = t2 \/ t1 = <<-t2[1], -t2[2], -t2[3], -t2[4]>>

\* C14: a bone without a descriptor is never an error: every bone transform of
\* import and export completes with the result of the identity descriptor.
C14_MissingDescriptorIsIdentity ==
    bt # <<>> /\ ~Registered =>
        /\ bt.pc # "raised"
        /\ bt.pc \in {"transformed", "back", "exported"} => bt.blender = <<BoneX>>
        /\ bt.pc = "back" => bt.back = <<FromBlenderOfX>>
        /\ bt.pc = "exported" => bt.exported = <<FromBlenderOfX>>

\* C15 as stated: transform_*_from_blender of transform_*_to_blender of x
\* returns x, for every table, bone and x.
C15_RoundTripReturnsX ==
    bt # <<>> /\ bt.pc = "back" =>
        bt.back = << IF bt.kind = "LOCATION" THEN BoneX ELSE AsTuple(BoneX) >>

\* C15 amended: transform_*_from_blender of transform_*_to_blender of x returns
\* pos_from_blender(x), respectively rot_from_blender(x): the value in the
\* file's space, which is the raw value when x was converted from one.
C15_RoundTripReturnsFileValue ==
    bt # <<>> /\ bt.pc = "back" => bt.back = <<FromBlenderOfX>>

\* A bone turned under a turned parent, and an x the axis conversion changes.
C15_Witness ==
    /\ bt # <<>> /\ bt.pc = "back" /\ Registered
    /\ bt.kind = "ROTATION"
    /\ bt.bone_props["spine"].parent_name = "root"
    /\ "root" \in DOMAIN bt.bone_props
    /\ bt.bone_props["root"].rot_local # IdentityQuaternion
    /\ bt.bone_props["spine"].rot # IdentityQuaternion
    /\ bt.bone_props["spine"].rot_local # IdentityQuaternion
    /\ bt.blender # <<BoneX>>
    /\ bt.back # <<AsTuple(BoneX)>>

\* The bone of the scenario: "spine" with head (0, 1, 0), no offset, no
\* rotation, no parent, and the raw position (0, 0.5, 0) converted.
SpineScenario ==
    /\ bt # <<>> /\ bt.kind = "LOCATION"
    /\ bt.bone_props = [spine |-> BoneProps(<<0, 2, 0>>, "", ZeroVector,
                                            IdentityQuaternion, IdentityQuaternion)]
    /\ bt.pc \in {"transformed", "back", "exported"}
    /\ BoneX = pos_to_blender(<<0, 1, 0>>)

\* C16 as stated: the raw position (0, 0.5, 0) of the scenario's bone becomes
\* the Blender position (0, 0, 0.5).
C16_SpineAtHalf ==
    SpineScenario => bt.blender = << <<0, 0, 1>> >>

\* C16 amended: it becomes (0, -1, 0.5): the axes are permuted to (0, 0, 0.5)
\* and the head (0, 1, 0) is subtracted.
C16_SpineHeadSubtracted ==
    SpineScenario => bt.blender = << <<0, -2, 1>> >>

C16_Witness ==
    SpineScenario /\ bt.pc = "transformed" /\ bt.blender = << <<0, -2, 1>> >>

\* C18: for a registered bone the exporter's transform of
\* transform_*_to_blender(x) is pos_from_blender(x), respectively (as a
\* rotation) rot_from_blender(x).
C18_ExporterReversesImport ==
    bt # <<>> /\ Registered /\ bt.pc = "exported" =>
        IF bt.kind = "LOCATION"
        THEN bt.exported = <<FromBlenderOfX>>
        ELSE SameTurn(bt.exported[1], FromBlenderOfX)

-----------------------------------------------------------------------------
(* The conversion of a camera animation *)

\* A camera animation has up to MaxCamFrames frames.
MaxCamFrames == 2

\* Field of view or focal length: 0, and values that are not.
CameraLenses == { Fraction(0, 1), Fraction(1, 1), Fraction(1, 2) }

CameraFrames ==
    { CMTFrame(location, focus_point, fov) :
        location \in { ZeroVector, <<1, 2, 3>> },
        focus_point \in { ZeroVector, <<0, 1, -1>> },
        fov \in CameraLenses }

InitCamera ==
    /\ \E n \in 0..MaxCamFrames, to_blender \in BOOLEAN :
         \E frames \in [1..n -> CameraFrames] :
            cam = [pc |-> "start", to_blender |-> to_blender,
                   sensor_height |-> SENSOR_HEIGHT,
                   before |-> frames, frames |-> frames, err |-> "none"]
    /\ idleCv /\ idleAc /\ idleMv /\ idleEx /\ idleBt /\ idleUi

ConvertCmtToBlender ==
    /\ cam.pc = "start" /\ cam.to_blender
    /\ LET r == convert_cmt_anm_to_blender(cam.frames, cam.sensor_height)
       IN cam' = [cam EXCEPT !.pc = IF r.err = "none" THEN "done" ELSE "raised",
                             !.frames = r.frames,
                             !.err = r.err]
    /\ UNCHANGED <<cvVars, acVars, mvVars, ex, bt, ui>>

ConvertCmtFromBlender ==
    /\ cam.pc = "start" /\ ~cam.to_blender
    /\ LET r == convert_cmt_anm_from_blender(cam.frames, cam.sensor_height)
       IN cam' = [cam EXCEPT !.pc = IF r.err = "none" THEN "done" ELSE "raised",
                             !.frames = r.frames,
                             !.err = r.err]
    /\ UNCHANGED <<cvVars, acVars, mvVars, ex, bt, ui>>

NextCamera ==
    \/ ConvertCmtToBlender
    \/ ConvertCmtFromBlender

SpecCamera == InitCamera /\ [][NextCamera]_vars

-----------------------------------------------------------------------------
(* Properties of the camera conversion *)

\* The frame n as the conversion leaves it when its lens value is not 0.
CameraFrameConverted(n) ==
    IF cam.to_blender
    THEN convert_cmt_anm_to_blender(<<cam.before[n]>>, cam.sensor_height).frames[1]
    ELSE convert_cmt_anm_from_blender(<<cam.before[n]>>, cam.sensor_height).frames[1]

\* C17: a frame whose fov has tangent 0 (to Blender) or whose focal length is 0
\* (from Blender) does not abort the conversion: the call returns, and every
\* other frame of the animation is converted.
C17_DegenerateFovDoesNotAbort ==
    cam # <<>> /\ cam.pc # "start" =>
        /\ cam.pc = "done"
        /\ \A n \in 1..Len(cam.before) :
              cam.before[n].fov.num # 0 => cam.frames[n] = CameraFrameConverted(n)

-----------------------------------------------------------------------------
(* An operator run from the menu *)

\* The collection of the active object holds up to MaxObjects objects.
MaxObjects == 2

SceneObjects == {"other", "mesh", "rigged", "bare_rigged"}
ActiveObjects == {"none", "armature", "bare_armature", "mesh"}

Scenes ==
    UNION { { [active |-> a, objects |-> objects] :
                a \in ActiveObjects, objects \in [1..n -> SceneObjects] }
            : n \in 0..MaxObjects }

ImportFiles ==
    { [ext |-> ".cmt", readable |-> TRUE], [ext |-> ".cmt", readable |-> FALSE],
      [ext |-> ".gmt", readable |-> TRUE] }

ExportSettings ==
    [skeleton_found : BOOLEAN, build : {"none", "GMTError", "KeyError"}]

InitOperator ==
    /\ \E scene \in Scenes :
         \/ \E file \in ImportFiles :
              ui = [pc |-> "invoked", operator |-> "import", scene |-> scene,
                    file |-> file, settings |-> None, disk |-> "absent",
                    started |-> FALSE, reports |-> <<>>, result |-> "none",
                    raised |-> "none"]
         \/ \E s \in ExportSettings, disk \in {"absent", "old"} :
              ui = [pc |-> "invoked", operator |-> "export", scene |-> scene,
                    file |-> None, settings |-> s, disk |-> disk,
                    started |-> FALSE, reports |-> <<>>, result |-> "none",
                    raised |-> "none"]
    /\ idleCv /\ idleAc /\ idleMv /\ idleEx /\ idleBt /\ idleCam

ImportExecute ==
    /\ ui.pc = "invoked" /\ ui.operator = "import"
    /\ LET r == import_execute(ui.scene, ui.file)
       IN ui' = [ui EXCEPT !.pc = IF r.raised = "none" THEN "returned" ELSE "raised",
                           !.scene.active = r.active,
                           !.started = r.started,
                           !.reports = r.reports,
                           !.result = r.result,
                           !.raised = r.raised]
    /\ UNCHANGED <<cvVars, acVars, mvVars, ex, bt, cam>>

ExportExecute ==
    /\ ui.pc = "invoked" /\ ui.operator = "export"
    /\ LET r == export_execute(ui.scene, ui.settings, ui.disk)
       IN ui' = [ui EXCEPT !.pc = IF r.raised = "none" THEN "returned" ELSE "raised",
                           !.scene.active = r.active,
                           !.disk = r.disk,
                           !.started = r.started,
                           !.reports = r.reports,
                           !.result = r.result,
                           !.raised = r.raised]
    /\ UNCHANGED <<cvVars, acVars, mvVars, ex, bt, cam>>

NextOperator ==
    \/ ImportExecute
    \/ ExportExecute

SpecOperator == InitOperator /\ [][NextOperator]_vars

-----------------------------------------------------------------------------
(* Properties of the operators *)

\* check_armature found no usable armature: it returned its message.
NoArmatureFound ==
    /\ ui.scene.active # "armature"
    /\ \A n \in 1..Len(ui.scene.objects) :
          ui.scene.objects[n] = "rigged" =>
              \E m \in 1..(n - 1) : ui.scene.objects[m] = "bare_rigged"

\* C20: when check_armature returns its message instead of 0, execute reports
\* an ERROR with it and returns CANCELLED without starting the importer or
\* exporter, which runs only when check_armature returned 0.
C20_NoArmatureCancels ==
    ui # <<>> /\ ui.pc # "invoked" /\ NoArmatureFound =>
        /\ ~ui.started
        /\ ui.pc = "returned" /\ ui.result = "CANCELLED"
        /\ Len(ui.reports) = 1 /\ ui.reports[1][1] = "ERROR"

\* The building of the animation raises GMTError: get_anm finds no armature
\* under the skeleton's name, or make_bone finds unmatching keyframe counts.
BuildRaisesGMTError ==
    ~ui.settings.skeleton_found \/ ui.settings.build = "GMTError"

\* C22: an export whose building raises GMTError leaves the output file as it
\* was, absent or with its old content, reports an ERROR and returns
\* CANCELLED; the file changes only in an export that returns FINISHED, and an
\* export that returns FINISHED has built the animation and written the file.
C22_FileWrittenOnlyAfterBuilt ==
    [][ (ui # <<>> /\ ui.operator = "export" /\ ui.pc = "invoked") =>
            /\ BuildRaisesGMTError =>
                  /\ ui'.disk = ui.disk
                  /\ ui'.pc = "returned" /\ ui'.result = "CANCELLED"
                  /\ Len(ui'.reports) = 1 /\ ui'.reports[1][1] = "ERROR"
            /\ ui'.disk # ui.disk => ui'.result = "FINISHED"
            /\ ui'.result = "FINISHED" =>
                  /\ ui'.disk = "written"
                  /\ ui.settings.skeleton_found /\ ui.settings.build = "none" ]_vars

\* An export over an old file ended by unmatching keyframe counts: cancelled,
\* the old file still there.
C22_Witness ==
    /\ ui # <<>> /\ ui.operator = "export" /\ ui.pc = "returned"
    /\ ui.settings.skeleton_found /\ ui.settings.build = "GMTError"
    /\ ui.disk = "old" /\ ui.result = "CANCELLED"

-----------------------------------------------------------------------------
(* Scenario: get_anm builds the bones of an animation from an action *)

\* An action has up to MaxGroups FCurve groups.
MaxGroups == 3

\* The bones an action can have a group for; group names are distinct.
AnmBoneNames == {"center_c_n", "vector_c_n", "ketu_c_n", "kosi_c_n"}

\* The location channels of a group keyed on the frames fs; in_path says
\* whether "gmt_" is in their data path.
LocationChannels(fs, in_path) ==
    [a \in 1..3 |->
        Channel("location", a, fs, [f \in Frames |-> "linear"])
            @@ [gmt |-> in_path]]

\* The channels a group can have: none, the location keyed on two frames, the
\* same with the y axis keyed once only, and the location twice, once under a
\* "gmt_" path.
AnmChannels ==
    [none |-> <<>>,
     keyed |-> LocationChannels(<<0, 2>>, FALSE),
     uneven |-> [LocationChannels(<<0, 2>>, FALSE) EXCEPT
                    ![2] = Channel("location", 2, <<0>>,
                                   [f \in Frames |-> "linear"]) @@ [gmt |-> FALSE]],
     keyed_gmt |-> LocationChannels(<<0, 2>>, FALSE)
                   \o LocationChannels(<<0>>, TRUE)]

\* A group of an action; only vector_c_n has channels under a "gmt_" path.
AnmGroupSet ==
    { [name |-> name, channels |-> AnmChannels[kind]] :
        name \in AnmBoneNames, kind \in {"none", "keyed", "uneven"} }
    \cup { [name |-> "vector_c_n", channels |-> AnmChannels.keyed_gmt] }

\* The groups of an action, in the order the action keeps them.
AnmGroups ==
    UNION { { gs \in [1..n -> AnmGroupSet] :
                \A i, j \in 1..n : gs[i].name = gs[j].name => i = j }
            : n \in 0..MaxGroups }

\* The armature found under skeleton_name: none, one with every bone at rest
\* at the origin, one without the bone kosi_c_n.
AnmArmatures ==
    { None,
      [name \in AnmBoneNames |-> GMTBlenderBoneProps],
      [name \in AnmBoneNames \ {"kosi_c_n"} |-> GMTBlenderBoneProps] }

AnmExporters ==
    { [version |-> HALF_FLOAT_MAX_VERSION, is_dragon_engine |-> FALSE],
      [version |-> HALF_FLOAT_MAX_VERSION + 1, is_dragon_engine |-> TRUE] }

InitAnm ==
    /\ \E self \in AnmExporters, armature \in AnmArmatures, groups \in AnmGroups :
         ex = [pc |-> "start", self |-> self, armature |-> armature,
               groups |-> groups, bones |-> <<>>, err |-> "none"]
    /\ idleCv /\ idleAc /\ idleMv /\ idleBt /\ idleCam /\ idleUi

\* GMTExporter.get_anm.
GetAnm ==
    /\ ex.pc = "start"
    /\ \E r \in { get_anm(ex.self, ex.armature, ex.groups) } :
         ex' = [ex EXCEPT !.pc = IF r.err = "none" THEN "done" ELSE "raised",
                          !.bones = r.bones,
                          !.err = r.err]
    /\ UNCHANGED <<cvVars, acVars, mvVars, bt, cam, ui>>

NextAnm ==
    \/ GetAnm

SpecAnm == InitAnm /\ [][NextAnm]_vars

\* The groups of the action that are named name, and the bones of the
\* animation that are.
GroupsNamed(name) == { i \in 1..Len(ex.groups) : ex.groups[i].name = name }
BonesNamed(name) == { i \in 1..Len(ex.bones) : ex.bones[i].name = name }

\* C21: whatever the order of the groups of the action, an animation that
\* get_anm built from an action with a vector_c_n group has exactly one bone
\* named center_c_n and exactly one named vector_c_n, and for a target that is
\* not the Dragon Engine exactly one bone named scale, the first of the list.
C21_OneCenterOneVectorOneScale ==
    (ex.pc = "done" /\ GroupsNamed("vector_c_n") # {})
        => /\ Cardinality(BonesNamed("center_c_n")) = 1
           /\ Cardinality(BonesNamed("vector_c_n")) = 1
           /\ ~ex.self.is_dragon_engine => BonesNamed("scale") = {1}

-----------------------------------------------------------------------------
(* The whole model: one of the scenarios *)

Init == \/ InitConv \/ InitMerge \/ InitVector
        \/ InitExport \/ InitBone \/ InitCamera \/ InitOperator
        \/ InitAnm

Next == \/ NextConv \/ NextMerge \/ NextVector
        \/ NextExport \/ NextBone \/ NextCamera \/ NextOperator
        \/ NextAnm

Spec == Init /\ [][Next]_vars

=============================================================================
